---------------------------- MODULE Spec2Model ----------------------------
(***************************************************************************)
(* A model of github.com/twpayne/go-gpx (src/gpx.go, the GPX/ReadOption    *)
(* revision at lines 383-1046): the time <-> measure codec, the text time  *)
(* layouts, the XML codec of the document tree and the package-level       *)
(* timeLayouts variable that Read's options assign.                        *)
(***************************************************************************)
EXTENDS Integers, Sequences, FiniteSets, TLC

VARIABLES
    timeLayouts,  \* the package variable timeLayouts (gpx.go:403)
    tm,           \* a time carried through TimeToM, MToTime and NewWptType
    pt,           \* a call of parseTime
    cr,           \* a copyright element decoded by CopyrightType.UnmarshalXML
    io,           \* the sequential Read and Write calls and the stream between
    thr,          \* the goroutines calling Read and Write concurrently
    wp,           \* a waypoint encoded by WptType.MarshalXML or decoded by UnmarshalXML
    ge,           \* a geometry turned into waypoints, or waypoints into a geometry
    ms            \* a track segment searched by findClosestPoint or fixed by MaxSpeed

vars == <<timeLayouts, tm, pt, cr, io, thr, wp, ge, ms>>

\* the value of a variable the specification at hand does not use
Idle == [pc |-> "idle"]

\* a nil pointer or an absent element is the empty sequence, a present one a
\* sequence of one; a nil error is NoError
None == <<>>

Some(x) == <<x>>

NoError == [kind |-> "nil"]

(***************************************************************************)
(* Unbounded naturals as bit sequences, least significant bit first.  TLC  *)
(* integers are 32 bits wide; UnixNano and the float64 significand are     *)
(* not, so int64 and float64 values are carried as bit sequences.          *)
(***************************************************************************)
RECURSIVE NatBits(_)
NatBits(n) == IF n = 0 THEN <<>> ELSE <<n % 2>> \o NatBits(n \div 2)

RECURSIVE BitsNat(_)
BitsNat(b) == IF b = <<>> THEN 0 ELSE Head(b) + 2 * BitsNat(Tail(b))

MaxOf(S) == CHOOSE x \in S : \A y \in S : y <= x

MinOf(S) == CHOOSE x \in S : \A y \in S : x <= y

Ones(b) == {i \in 1..Len(b) : b[i] = 1}

TrimBits(b) == IF Ones(b) = {} THEN <<>> ELSE SubSeq(b, 1, MaxOf(Ones(b)))

Zeros(n) == [i \in 1..n |-> 0]

ShiftLeft(b, s) == IF b = <<>> THEN <<>> ELSE Zeros(s) \o b

LowHalf(b) == SubSeq(b, 1, Len(b) \div 2)

HighHalf(b) == SubSeq(b, Len(b) \div 2 + 1, Len(b))

\* the low Len(b) bits and the carry out of b * k + c, for 0 <= c < k < 2^30;
\* the halves are taken in turn, the carry of the low one feeding the high one
RECURSIVE MulCarry(_, _, _)
MulCarry(b, k, c) ==
    IF b = <<>> THEN [bits |-> <<>>, carry |-> c]
    ELSE IF Len(b) = 1
         THEN LET v == b[1] * k + c IN [bits |-> <<v % 2>>, carry |-> v \div 2]
    ELSE LET lo == MulCarry(LowHalf(b), k, c)
         IN  IF lo.carry < 0 THEN [bits |-> <<>>, carry |-> 0]
             ELSE LET hi == MulCarry(HighHalf(b), k, lo.carry)
                  IN  [bits |-> lo.bits \o hi.bits, carry |-> hi.carry]

\* b * k + c
MulBits(b, k, c) == LET m == MulCarry(b, k, c) IN m.bits \o NatBits(m.carry)

\* quotient and remainder of (r * 2^Len(b) + b) by d, for 0 <= r < d < 2^30
RECURSIVE DivRem(_, _, _)
DivRem(b, d, r) ==
    IF b = <<>> THEN [q |-> <<>>, r |-> r]
    ELSE IF Len(b) = 1
         THEN LET v == 2 * r + b[1]
              IN  IF v >= d THEN [q |-> <<1>>, r |-> v - d] ELSE [q |-> <<0>>, r |-> v]
    ELSE LET hi == DivRem(HighHalf(b), d, r)
         IN  IF hi.r < 0 THEN [q |-> <<>>, r |-> 0]
             ELSE LET lo == DivRem(LowHalf(b), d, hi.r)
                  IN  [q |-> lo.q \o hi.q, r |-> lo.r]

DivBits(b, d) == DivRem(b, d, 0)

\* b + 1
IncBits(b) ==
    LET zs == {i \in 1..Len(b) : b[i] = 0}
    IN  IF zs = {} THEN Zeros(Len(b)) \o <<1>>
        ELSE [i \in 1..Len(b) |-> IF i < MinOf(zs) THEN 0 ELSE IF i = MinOf(zs) THEN 1 ELSE b[i]]

BitAt(b, i) == IF i <= Len(b) THEN b[i] ELSE 0

\* -1, 0, 1 as a < b, a = b, a > b
CmpBits(a, b) ==
    LET n == IF Len(a) > Len(b) THEN Len(a) ELSE Len(b)
        ds == {i \in 1..n : BitAt(a, i) # BitAt(b, i)}
    IN  IF ds = {} THEN 0
        ELSE IF BitAt(a, MaxOf(ds)) < BitAt(b, MaxOf(ds)) THEN 0 - 1 ELSE 1

\* a - b for a >= b: bit i of the difference sees a borrow exactly when the
\* low i - 1 bits of a are below those of b
SubBits(a, b) ==
    TrimBits([i \in 1..Len(a) |->
        LET borrow == IF CmpBits(SubSeq(a, 1, i - 1), SubSeq(b, 1, IF i - 1 < Len(b) THEN i - 1 ELSE Len(b))) < 0
                      THEN 1 ELSE 0
        IN  (a[i] + 2 - BitAt(b, i) - borrow) % 2])

(***************************************************************************)
(* float64: a sign and an integer significand of at most Mantissa bits     *)
(* times a power of two.  Canonical form: the significand is odd (or the   *)
(* value is zero), so equal values are equal records.  The values the      *)
(* model reaches are far from the subnormal and the infinite range.        *)
(***************************************************************************)
Mantissa == 53

Canon(neg, mant, exp) ==
    IF Ones(mant) = {} THEN [neg |-> FALSE, mant |-> <<>>, exp |-> 0]
    ELSE LET lo == MinOf(Ones(mant))
         IN  [neg |-> neg, mant |-> SubSeq(mant, lo, MaxOf(Ones(mant))), exp |-> exp + lo - 1]

FZero == [neg |-> FALSE, mant |-> <<>>, exp |-> 0]

\* bits * 2^exp (plus a non-zero tail when sticky) rounded to nearest, ties
\* to even, as every float64 operation rounds
RoundNearestEven(neg, bits, exp, sticky) ==
    LET b == TrimBits(bits)
        drop == Len(b) - Mantissa
    IN  IF drop <= 0 THEN Canon(neg, b, exp)
        ELSE LET kept == SubSeq(b, drop + 1, Len(b))
                 half == b[drop]
                 rest == sticky \/ \E i \in 1..(drop - 1) : b[i] = 1
                 up   == half = 1 /\ (rest \/ kept[1] = 1)
             IN  Canon(neg, IF up THEN IncBits(kept) ELSE kept, exp + drop)

\* float64(n) for an int64 n given as sign and magnitude
FloatOfInt(neg, bits) == RoundNearestEven(neg, bits, 0, FALSE)

FloatOfNat(n) == FloatOfInt(FALSE, NatBits(n))

\* x / d for a float64 x and d an integer-valued float64 below 2^30: the
\* quotient is taken with at least Mantissa + 2 bits and rounded once
FDivInt(x, d) ==
    IF x.mant = <<>> THEN FZero
    ELSE LET s  == Mantissa + 32 - Len(x.mant)
             qr == DivBits(ShiftLeft(x.mant, s), d)
         IN  RoundNearestEven(x.neg, qr.q, x.exp - s, qr.r # 0)

\* x * k for a float64 x and k an integer-valued float64 below 2^30
FMulInt(x, k) ==
    IF x.mant = <<>> THEN FZero
    ELSE RoundNearestEven(x.neg, MulBits(x.mant, k, 0), x.exp, FALSE)

\* int64(x): truncation toward zero, as sign and magnitude
TruncBits(x) ==
    IF x.exp >= 0 THEN ShiftLeft(x.mant, x.exp)
    ELSE SubSeq(x.mant, 1 - x.exp, Len(x.mant))

\* int64(x) as an integer, for |x| < 2^31
TruncInt(x) == LET n == BitsNat(TruncBits(x)) IN IF x.neg THEN 0 - n ELSE n

(***************************************************************************)
(* time.Time: an instant (day since 1970-01-01, second of the day and      *)
(* nanosecond, all in UTC) and the location it is presented in.  The zero  *)
(* Time is 0001-01-01T00:00:00 UTC.                                         *)
(***************************************************************************)
Second == 1000000000

SecondsPerDay == 86400

ZeroDay == 0 - 719162

ZeroTime == [day |-> ZeroDay, sod |-> 0, nsec |-> 0, loc |-> "UTC"]

IsZero(t) == t.day = ZeroDay /\ t.sod = 0 /\ t.nsec = 0

SameInstant(a, b) == a.day = b.day /\ a.sod = b.sod /\ a.nsec = b.nsec

InUTC(t) == [t EXCEPT !.loc = "UTC"]

\* time.Unix(sec, nsec), nsec outside [0, 1e9) carried into sec; in Local
Unix(sec, nsec) ==
    LET s == sec + (nsec \div Second)
        n == nsec % Second
    IN  [day |-> s \div SecondsPerDay, sod |-> s % SecondsPerDay, nsec |-> n, loc |-> "Local"]

UnixSec(t) == t.day * SecondsPerDay + t.sod

\* an integer of any size, as sign and magnitude, wrapped to int64
Wrap64(neg, bits) ==
    LET low == TrimBits(SubSeq(bits, 1, IF Len(bits) < 64 THEN Len(bits) ELSE 64))
        u   == IF neg /\ low # <<>> THEN TrimBits(SubBits(ShiftLeft(<<1>>, 64), low)) ELSE low
    IN  IF Len(u) = 64 THEN [neg |-> TRUE, bits |-> TrimBits(SubBits(ShiftLeft(<<1>>, 64), u))]
        ELSE [neg |-> FALSE, bits |-> u]

\* t.UnixNano(), an int64, as sign and magnitude
UnixNano(t) ==
    LET s == UnixSec(t)
    IN  IF s >= 0 THEN Wrap64(FALSE, TrimBits(MulBits(NatBits(s), Second, t.nsec)))
        ELSE IF t.nsec = 0 THEN Wrap64(TRUE, TrimBits(MulBits(NatBits(0 - s), Second, 0)))
        ELSE Wrap64(TRUE, TrimBits(MulBits(NatBits(0 - s - 1), Second, Second - t.nsec)))

\* Go's % on int64: the remainder has the sign of the dividend
RemSigned(neg, bits, d) == LET r == DivBits(bits, d).r IN IF neg THEN 0 - r ELSE r

MToTimeZeroSentinel(m) ==
    IF m.mant = <<>> THEN ZeroTime
    ELSE InUTC(Unix(TruncInt(m), RemSigned(m.neg, TruncBits(FMulInt(m, Second)), Second)))

MToTimeNoNanos(m) ==
    IF m.mant = <<>> THEN Unix(0, 0)
    ELSE InUTC(Unix(TruncInt(m), 0))

MToTime(m) ==
    IF m.mant = <<>> THEN Unix(0, 0)
    ELSE InUTC(Unix(TruncInt(m), RemSigned(m.neg, TruncBits(FMulInt(m, Second)), Second)))

TimeToMWholeSeconds(t) ==
    IF IsZero(t) THEN FZero
    ELSE LET s == UnixSec(t) IN FloatOfInt(s < 0, NatBits(IF s < 0 THEN 0 - s ELSE s))

TimeToM(t) ==
    IF IsZero(t) THEN FZero
    ELSE LET n == UnixNano(t) IN FDivInt(FloatOfInt(n.neg, n.bits), Second)

(***************************************************************************)
(* Text of a time and the layouts of package time.  A layout is the        *)
(* sequence of its elements; a text is the sequence of its lexical atoms   *)
(* [k, v]: a date 2006-01-02, a clock 15:04:05, a fraction .999999999, a   *)
(* numeric zone +05:00, four digits, another integer, a decimal fraction,  *)
(* a literal character or a word that is none of these.                    *)
(***************************************************************************)
RFC3339Nano == <<"2006-01-02", "T", "15:04:05", ".999999999", "Z07:00">>

NoZoneLayout == <<"2006-01-02", "T", "15:04:05", ".999999999">>

DefaultTimeLayouts == <<RFC3339Nano, NoZoneLayout>>

copyrightYearLayouts == <<(<<"2006">>), <<"2006", "Z">>, <<"2006", "-07:00">>>>

errNoTimeLayout == [kind |-> "no time layout"]

ParseError(layout, value) == [kind |-> "ParseError", layout |-> layout, value |-> value]

\* an atom carrying a number (date, clock, frac, digits4, int), a string (lit,
\* zone, word) or a decimal fraction (float)
NumAtom(k, n) == [k |-> k, n |-> n, s |-> "", x |-> FZero]

StrAtom(k, s) == [k |-> k, n |-> 0, s |-> s, x |-> FZero]

Lit(c) == StrAtom("lit", c)

\* the offset of a location; the process's Local zone is taken to be at
\* offset 0, like UTC
OffsetSec(loc) ==
    CASE loc = "+05:00" -> 18000
      [] loc = "-07:00" -> 0 - 25200
      [] OTHER -> 0

Leaps(y) == (y \div 4) - (y \div 100) + (y \div 400)

\* days from 1970-01-01 to January 1 of year y
YearStart(y) == 365 * (y - 1970) + Leaps(y - 1) - Leaps(1969)

\* t.Year(): the year of the instant as presented in t's location
Year(t) ==
    LET d  == t.day + ((t.sod + OffsetSec(t.loc)) \div SecondsPerDay)
        y0 == 1970 + ((d * 400) \div 146097)
    IN  CHOOSE y \in (y0 - 1)..(y0 + 1) : YearStart(y) <= d /\ d < YearStart(y + 1)

\* the instant of a wall-clock reading (day, sod, nsec) taken at the offset of loc
TimeAt(day, sod, nsec, loc) ==
    LET s == sod - OffsetSec(loc)
    IN  [day |-> day + (s \div SecondsPerDay), sod |-> s % SecondsPerDay, nsec |-> nsec, loc |-> loc]

IsKind(text, k) == text # <<>> /\ Head(text).k = k

\* time.Parse(layout, value): the layout's elements are matched in turn
\* against the head of the text, acc holding what is read so far; text left
\* at the end is an error
RECURSIVE ParseFrom(_, _, _)
ParseFrom(layout, text, acc) ==
    IF layout = <<>>
    THEN (IF text = <<>> THEN [ok |-> TRUE, t |-> TimeAt(acc.day, acc.sod, acc.nsec, acc.loc)]
          ELSE [ok |-> FALSE])
    ELSE LET e == Head(layout)
             rest == Tail(layout)
         IN  CASE e = "2006-01-02" ->
                    IF IsKind(text, "date")
                    THEN ParseFrom(rest, Tail(text), [acc EXCEPT !.day = Head(text).n])
                    ELSE [ok |-> FALSE]
               [] e = "2006" ->
                    IF IsKind(text, "digits4")
                    THEN ParseFrom(rest, Tail(text), [acc EXCEPT !.day = YearStart(Head(text).n)])
                    ELSE [ok |-> FALSE]
               [] e = "15:04:05" ->
                    IF ~IsKind(text, "clock") THEN [ok |-> FALSE]
                    ELSE IF IsKind(Tail(text), "frac") /\ ~(rest # <<>> /\ Head(rest) = ".999999999")
                    THEN ParseFrom(rest, Tail(Tail(text)),
                                   [acc EXCEPT !.sod = Head(text).n, !.nsec = Head(Tail(text)).n])
                    ELSE ParseFrom(rest, Tail(text), [acc EXCEPT !.sod = Head(text).n])
               [] e = ".999999999" ->
                    IF IsKind(text, "frac")
                    THEN ParseFrom(rest, Tail(text), [acc EXCEPT !.nsec = Head(text).n])
                    ELSE ParseFrom(rest, text, acc)
               [] e = "Z07:00" ->
                    IF text # <<>> /\ Head(text) = Lit("Z")
                    THEN ParseFrom(rest, Tail(text), [acc EXCEPT !.loc = "UTC"])
                    ELSE IF IsKind(text, "zone")
                    THEN ParseFrom(rest, Tail(text), [acc EXCEPT !.loc = Head(text).s])
                    ELSE [ok |-> FALSE]
               [] e = "-07:00" ->
                    IF IsKind(text, "zone")
                    THEN ParseFrom(rest, Tail(text), [acc EXCEPT !.loc = Head(text).s])
                    ELSE [ok |-> FALSE]
               [] OTHER ->
                    IF text # <<>> /\ Head(text) = Lit(e)
                    THEN ParseFrom(rest, Tail(text), acc)
                    ELSE [ok |-> FALSE]

Parse(layout, value) ==
    LET r == ParseFrom(layout, value, [day |-> 0, sod |-> 0, nsec |-> 0, loc |-> "UTC"])
    IN  IF r.ok THEN [t |-> r.t, err |-> NoError]
        ELSE [t |-> ZeroTime, err |-> ParseError(layout, value)]

\* t.Format(layout), element by element, from the wall clock of t in its
\* location
FormatElement(e, t) ==
    CASE e = "2006-01-02" -> <<NumAtom("date", t.day + ((t.sod + OffsetSec(t.loc)) \div SecondsPerDay))>>
      [] e = "2006" -> <<NumAtom("digits4", Year(t))>>
      [] e = "15:04:05" -> <<NumAtom("clock", (t.sod + OffsetSec(t.loc)) % SecondsPerDay)>>
      [] e = ".999999999" -> IF t.nsec = 0 THEN <<>> ELSE <<NumAtom("frac", t.nsec)>>
      [] e = "Z07:00" -> IF OffsetSec(t.loc) = 0 THEN <<Lit("Z")>> ELSE <<StrAtom("zone", t.loc)>>
      [] e = "-07:00" -> <<StrAtom("zone", IF OffsetSec(t.loc) = 0 THEN "+00:00" ELSE t.loc)>>
      [] OTHER -> <<Lit(e)>>

RECURSIVE Format(_, _)
Format(layout, t) ==
    IF layout = <<>> THEN <<>> ELSE FormatElement(Head(layout), t) \o Format(Tail(layout), t)

\* parseTime (gpx.go:1035): the loop over the layouts from index i on
RECURSIVE parseTimeFrom(_, _, _, _)
parseTimeFrom(layouts, value, i, firstErr) ==
    IF i > Len(layouts) THEN [t |-> ZeroTime, err |-> firstErr]
    ELSE LET r == Parse(layouts[i], value)
         IN  IF r.err = NoError THEN r
             ELSE parseTimeFrom(layouts, value, i + 1, IF i = 1 THEN r.err ELSE firstErr)

parseTimeNoLayoutError(layouts, value) ==
    LET r == parseTimeFrom(layouts, value, 1, errNoTimeLayout)
    IN  IF r.err = NoError THEN r ELSE [t |-> ZeroTime, err |-> errNoTimeLayout]

parseTime(layouts, value) == parseTimeFrom(layouts, value, 1, errNoTimeLayout)

(***************************************************************************)
(* The document tree.  A Go string is the text it holds (a sequence of     *)
(* atoms, "" the empty sequence), a float64 or int field a number, a       *)
(* pointer None or Some(record), a slice a sequence.  Fields(T) lists the  *)
(* fields of struct type T in declaration order with their xml tags:       *)
(* f the Go name, x the XML name, mode attr / elem / innerxml, kind the    *)
(* Go type, omit the omitempty flag.                                       *)
(***************************************************************************)
Fld(f, x, mode, kind, of, omit) ==
    [f |-> f, x |-> x, mode |-> mode, kind |-> kind, of |-> of, omit |-> omit]

Structs ==
  [
    BoundsType |->
        << Fld("MinLat", "minlat", "attr", "float", "", FALSE),
           Fld("MinLon", "minlon", "attr", "float", "", FALSE),
           Fld("MaxLat", "maxlat", "attr", "float", "", FALSE),
           Fld("MaxLon", "maxlon", "attr", "float", "", FALSE) >>,

    CopyrightType |->
        << Fld("Author", "author", "attr", "string", "", FALSE),
           Fld("Year", "year", "elem", "int", "", TRUE),
           Fld("License", "license", "elem", "string", "", TRUE) >>,

    \* the struct CopyrightType.UnmarshalXML decodes into (gpx.go:549-553)
    CopyrightAlias |->
        << Fld("Author", "author", "attr", "string", "", FALSE),
           Fld("Year", "year", "elem", "ptrstring", "", TRUE),
           Fld("License", "license", "elem", "string", "", TRUE) >>,

    ExtensionsType |->
        << Fld("XML", "", "innerxml", "bytes", "", FALSE) >>,

    LinkType |->
        << Fld("HREF", "href", "attr", "string", "", FALSE),
           Fld("Text", "text", "elem", "string", "", TRUE),
           Fld("Type", "type", "elem", "string", "", TRUE) >>,

    EmailType |->
        << Fld("Name", "id", "attr", "string", "", FALSE),
           Fld("Domain", "domain", "attr", "string", "", FALSE) >>,

    PersonType |->
        << Fld("Name", "name", "elem", "string", "", TRUE),
           Fld("Email", "email", "elem", "ptr", "EmailType", TRUE),
           Fld("Link", "link", "elem", "ptr", "LinkType", TRUE) >>,

    MetadataType |->
        << Fld("Name", "name", "elem", "string", "", TRUE),
           Fld("Desc", "desc", "elem", "string", "", TRUE),
           Fld("Author", "author", "elem", "ptr", "PersonType", TRUE),
           Fld("Copyright", "copyright", "elem", "ptr", "CopyrightType", TRUE),
           Fld("Link", "link", "elem", "slice", "LinkType", TRUE),
           Fld("Time", "time", "elem", "time", "", TRUE),
           Fld("Keywords", "keywords", "elem", "string", "", TRUE),
           Fld("Bounds", "bounds", "elem", "ptr", "BoundsType", TRUE),
           Fld("Extensions", "extensions", "elem", "ptr", "ExtensionsType", TRUE) >>,

    RteType |->
        << Fld("Name", "name", "elem", "string", "", TRUE),
           Fld("Cmt", "cmt", "elem", "string", "", TRUE),
           Fld("Desc", "desc", "elem", "string", "", TRUE),
           Fld("Src", "src", "elem", "string", "", TRUE),
           Fld("Link", "link", "elem", "slice", "LinkType", TRUE),
           Fld("Number", "number", "elem", "int", "", TRUE),
           Fld("Type", "type", "elem", "string", "", TRUE),
           Fld("Extensions", "extensions", "elem", "ptr", "ExtensionsType", TRUE),
           Fld("RtePt", "rtept", "elem", "slice", "WptType", TRUE) >>,

    TrkSegType |->
        << Fld("TrkPt", "trkpt", "elem", "slice", "WptType", TRUE),
           Fld("Extensions", "extensions", "elem", "ptr", "ExtensionsType", TRUE) >>,

    TrkType |->
        << Fld("Name", "name", "elem", "string", "", TRUE),
           Fld("Cmt", "cmt", "elem", "string", "", TRUE),
           Fld("Desc", "desc", "elem", "string", "", TRUE),
           Fld("Src", "src", "elem", "string", "", TRUE),
           Fld("Link", "link", "elem", "slice", "LinkType", TRUE),
           Fld("Number", "number", "elem", "int", "", TRUE),
           Fld("Type", "type", "elem", "string", "", TRUE),
           Fld("Extensions", "extensions", "elem", "ptr", "ExtensionsType", TRUE),
           Fld("TrkSeg", "trkseg", "elem", "slice", "TrkSegType", TRUE) >>,

    \* the struct WptType.UnmarshalXML decodes into (gpx.go:885-909); the fields
    \* and their order are those of WptType (gpx.go:521-545)
    WptType |->
        << Fld("Lat", "lat", "attr", "float", "", FALSE),
           Fld("Lon", "lon", "attr", "float", "", FALSE),
           Fld("Ele", "ele", "elem", "float", "", FALSE),
           Fld("Speed", "speed", "elem", "float", "", FALSE),
           Fld("Course", "course", "elem", "float", "", FALSE),
           Fld("Time", "time", "elem", "string", "", FALSE),
           Fld("MagVar", "magvar", "elem", "float", "", FALSE),
           Fld("GeoidHeight", "geoidheight", "elem", "float", "", FALSE),
           Fld("Name", "name", "elem", "string", "", FALSE),
           Fld("Cmt", "cmt", "elem", "string", "", FALSE),
           Fld("Desc", "desc", "elem", "string", "", FALSE),
           Fld("Src", "src", "elem", "string", "", FALSE),
           Fld("Link", "link", "elem", "slice", "LinkType", FALSE),
           Fld("Sym", "sym", "elem", "string", "", FALSE),
           Fld("Type", "type", "elem", "string", "", FALSE),
           Fld("Fix", "fix", "elem", "string", "", FALSE),
           Fld("Sat", "sat", "elem", "int", "", FALSE),
           Fld("HDOP", "hdop", "elem", "float", "", FALSE),
           Fld("VDOP", "vdop", "elem", "float", "", FALSE),
           Fld("PDOP", "pdop", "elem", "float", "", FALSE),
           Fld("AgeOfDGPSData", "ageofdgpsdata", "elem", "float", "", FALSE),
           Fld("DGPSID", "dgpsid", "elem", "ints", "", FALSE),
           Fld("Extensions", "extensions", "elem", "ptr", "ExtensionsType", FALSE) >>,

    \* GPX (gpx.go:442-453).  XMLAttrs has the tag "-"; XMLSchemaLocations is an
    \* attribute field whose tag name is the whole of "xsi:schemaLocation"
    GPX |->
        << Fld("XMLSchemaLocations", "xsi:schemaLocation", "attr", "strings", "", FALSE),
           Fld("Version", "version", "attr", "string", "", FALSE),
           Fld("Creator", "creator", "attr", "string", "", FALSE),
           Fld("Metadata", "metadata", "elem", "ptr", "MetadataType", TRUE),
           Fld("Wpt", "wpt", "elem", "slice", "WptType", TRUE),
           Fld("Rte", "rte", "elem", "slice", "RteType", TRUE),
           Fld("Trk", "trk", "elem", "slice", "TrkType", TRUE),
           Fld("Extensions", "extensions", "elem", "ptr", "ExtensionsType", TRUE) >>
  ]

Fields(T) == Structs[T]

\* the zero value of a struct type with the fields fs; WptType.Time is a
\* time.Time and GPX has the untagged map XMLAttrs besides
ZeroValue(T, fs) ==
    [f \in {fs[i].f : i \in 1..Len(fs)} \cup (IF T = "GPX" THEN {"XMLAttrs"} ELSE {}) |->
        IF f = "XMLAttrs" THEN {}
        ELSE IF T = "WptType" /\ f = "Time" THEN ZeroTime
        ELSE LET kind == fs[CHOOSE i \in 1..Len(fs) : fs[i].f = f].kind
             IN  CASE kind = "int" -> 0
                   [] kind = "float" -> FZero
                   [] kind = "time" -> ZeroTime
                   [] OTHER -> <<>>]

ZeroStruct(T) == ZeroValue(T, Fields(T))

(***************************************************************************)
(* XML as the encoder writes it and the decoder reads it: an element has   *)
(* a name, attributes in order (the attribute name split at its colon),    *)
(* child elements in order, character data, and is closed unless the input *)
(* ends inside it.                                                         *)
(***************************************************************************)
Attr(name, value) == [name |-> name, value |-> value]

Elem(name, attrs, kids, text) ==
    [name |-> name, attrs |-> attrs, kids |-> kids, text |-> text, closed |-> TRUE]

Word(s) == <<StrAtom("word", s)>>

RECURSIVE Flatten(_)
Flatten(ss) == IF ss = <<>> THEN <<>> ELSE Head(ss) \o Flatten(Tail(ss))

\* strings.Join(texts, sep)
RECURSIVE Join(_, _)
Join(texts, sep) ==
    IF texts = <<>> THEN <<>>
    ELSE IF Len(texts) = 1 THEN texts[1]
    ELSE texts[1] \o <<Lit(sep)>> \o Join(Tail(texts), sep)

\* strings.Join(strings.Split(text, old), new)
Replace(text, old, new) == [i \in 1..Len(text) |-> IF text[i] = Lit(old) THEN Lit(new) ELSE text[i]]

\* strconv.Itoa
IntText(n) == <<NumAtom(IF n >= 1000 /\ n <= 9999 THEN "digits4" ELSE "int", n)>>

\* strconv.FormatFloat(v, 'f', -1, 64): an integral value prints as its digits
FloatText(v) ==
    IF v.exp >= 0 /\ Len(v.mant) + v.exp <= 30 THEN IntText(TruncInt(v)) 
    ELSE <<[k |-> "float", n |-> 0, s |-> "", x |-> v]>>

\* what an encoding step emitted, whether it panicked and the error it
\* returned
Emitted(els) == [els |-> els, panic |-> FALSE, err |-> NoError]

\* the error of an encoder whose writer fails
EncodeError == [kind |-> "write error"]

\* e.EncodeToken of a start tag or an end tag ("start", "end"), or the
\* encoding of a whole element by the library ("elem"); e is the set of the
\* tokens that the encoder fails to write
EncodeToken(e, kind, name) == IF <<kind, name>> \in e THEN EncodeError ELSE NoError

\* e.EncodeElement of the elements els: all of them or the error
EmittedBy(e, els) ==
    IF \E i \in 1..Len(els) : EncodeToken(e, "elem", els[i].name) # NoError
    THEN [els |-> <<>>, panic |-> FALSE, err |-> EncodeError]
    ELSE Emitted(els)

ThenAllBackwards(steps) ==
    [els |-> Flatten([i \in 1..Len(steps) |-> steps[Len(steps) + 1 - i].els]),
     panic |-> \E i \in 1..Len(steps) : steps[i].panic, err |-> NoError]

ThenAllIgnoringErrors(steps) ==
    [els |-> Flatten([i \in 1..Len(steps) |-> steps[i].els]),
     panic |-> \E i \in 1..Len(steps) : steps[i].panic, err |-> NoError]

\* the steps in order, up to the first that panics or returns an error
\* (if err := ...; err != nil { return err })
ThenAll(steps) ==
    LET done == steps \o <<>>
        bad  == {i \in 1..Len(done) : done[i].panic \/ done[i].err # NoError}
        n    == IF bad = {} THEN Len(done) ELSE MinOf(bad)
    IN  [els |-> Flatten([i \in 1..n |-> done[i].els]),
         panic |-> bad # {} /\ done[n].panic,
         err |-> IF bad = {} THEN NoError ELSE done[n].err]

\* the element of a start tag written, the children kids and the end tag:
\* not closed if a child failed or the end tag, of error endErr, did
Written(name, attrs, text, kids, endErr) ==
    IF kids.panic \/ kids.err # NoError
    THEN [els |-> <<[Elem(name, attrs, kids.els, text) EXCEPT !.closed = FALSE]>>,
          panic |-> kids.panic, err |-> kids.err]
    ELSE [els |-> <<[Elem(name, attrs, kids.els, text) EXCEPT !.closed = endErr = NoError]>>,
          panic |-> FALSE, err |-> endErr]

emitStringElement(localName, value) == <<Elem(localName, <<>>, <<>>, value)>>

emitIntElementNonZero(localName, value) ==
    IF value = 0 THEN <<>> ELSE emitStringElement(localName, IntText(value))

emitIntElement(localName, value) == emitStringElement(localName, IntText(value))

maybeEmitFloatElement(localName, value) ==
    IF value.mant = <<>> THEN <<>> ELSE emitStringElement(localName, FloatText(value))

maybeEmitIntElement(localName, value) ==
    IF value = 0 THEN <<>> ELSE emitIntElement(localName, value)

maybeEmitStringElement(localName, value) ==
    IF value = <<>> THEN <<>> ELSE emitStringElement(localName, value)

\* the time child of WptType.MarshalXML (gpx.go:818-822)
WptTimeElement(w, tl, e) ==
    IF IsZero(w.Time) THEN Emitted(<<>>)
    ELSE IF tl = <<>> THEN [els |-> <<>>, panic |-> TRUE, err |-> NoError]
    ELSE EmittedBy(e, maybeEmitStringElement("time", Format(tl[1], InUTC(w.Time))))

\* encoding/xml on a struct of attributes, strings and inner XML (LinkType,
\* ExtensionsType), which has no MarshalXML method
MarshalPlain(T, v, name) ==
    LET fs == Fields(T)
    IN  Elem(name,
             Flatten([i \in 1..Len(fs) |->
                 IF fs[i].mode = "attr" THEN <<Attr(<<fs[i].x>>, v[fs[i].f])>> ELSE <<>>]),
             Flatten([i \in 1..Len(fs) |->
                 IF fs[i].mode = "elem" /\ ~(fs[i].omit /\ v[fs[i].f] = <<>>)
                 THEN emitStringElement(fs[i].x, v[fs[i].f]) ELSE <<>>]),
             Flatten([i \in 1..Len(fs) |-> IF fs[i].mode = "innerxml" THEN v[fs[i].f] ELSE <<>>]))

WptStartAttrsLonLat(w, start) ==
    start.attrs \o <<Attr(<<"lon">>, FloatText(w.Lon)), Attr(<<"lat">>, FloatText(w.Lat))>>

\* start.Attr = append(start.Attr, latAttr, lonAttr) (gpx.go:797-808)
WptStartAttrs(w, start) ==
    start.attrs \o <<Attr(<<"lat">>, FloatText(w.Lat)), Attr(<<"lon">>, FloatText(w.Lon))>>

\* WptType.MarshalXML (gpx.go:796-881)
MarshalWpt(w, start, tl, e) ==
    LET attrs == WptStartAttrs(w, start)
        kids  == ThenAll(<<
                   EmittedBy(e, maybeEmitFloatElement("ele", w.Ele)),
                   EmittedBy(e, maybeEmitFloatElement("speed", w.Speed)),
                   EmittedBy(e, maybeEmitFloatElement("course", w.Course)),
                   WptTimeElement(w, tl, e),
                   EmittedBy(e, maybeEmitFloatElement("magvar", w.MagVar)),
                   EmittedBy(e, maybeEmitFloatElement("geoidheight", w.GeoidHeight)),
                   EmittedBy(e, maybeEmitStringElement("name", w.Name)),
                   EmittedBy(e, maybeEmitStringElement("cmt", w.Cmt)),
                   EmittedBy(e, maybeEmitStringElement("desc", w.Desc)),
                   EmittedBy(e, maybeEmitStringElement("src", w.Src)),
                   EmittedBy(e, [i \in 1..Len(w.Link) |-> MarshalPlain("LinkType", w.Link[i], "link")]),
                   EmittedBy(e, maybeEmitStringElement("sym", w.Sym)),
                   EmittedBy(e, maybeEmitStringElement("type", w.Type)),
                   EmittedBy(e, maybeEmitStringElement("fix", w.Fix)),
                   EmittedBy(e, maybeEmitIntElement("sat", w.Sat)),
                   EmittedBy(e, maybeEmitFloatElement("hdop", w.HDOP)),
                   EmittedBy(e, maybeEmitFloatElement("vdop", w.VDOP)),
                   EmittedBy(e, maybeEmitFloatElement("pdop", w.PDOP)),
                   EmittedBy(e, maybeEmitFloatElement("ageofdgpsdata", w.AgeOfDGPSData)),
                   EmittedBy(e, Flatten([i \in 1..Len(w.DGPSID) |-> emitIntElement("dgpsid", w.DGPSID[i])])),
                   EmittedBy(e, IF w.Extensions = None THEN <<>>
                           ELSE <<MarshalPlain("ExtensionsType", w.Extensions[1], "extensions")>>) >>)
    IN  IF EncodeToken(e, "start", start.name) # NoError
        THEN [els |-> <<>>, panic |-> FALSE, err |-> EncodeToken(e, "start", start.name)]
        ELSE Written(start.name, attrs, <<>>, kids, EncodeToken(e, "end", start.name))

\* encoding/xml on a value of struct type T under the element name given:
\* by the type's MarshalXML method if it has one, else field by field by the
\* tags, a nil pointer and an empty slice giving nothing
RECURSIVE MarshalValue(_, _, _, _, _)
MarshalValue(T, v, name, tl, e) ==
    IF T = "WptType" THEN MarshalWpt(v, [name |-> name, attrs |-> <<>>], tl, e)
    ELSE IF EncodeToken(e, "elem", name) # NoError
    THEN [els |-> <<>>, panic |-> FALSE, err |-> EncodeToken(e, "elem", name)]
    ELSE LET fs == Fields(T)
             Kid(fld, x) ==
                 CASE fld.kind = "string" ->
                        EmittedBy(e, IF fld.omit /\ x = <<>> THEN <<>> ELSE emitStringElement(fld.x, x))
                   [] fld.kind = "int" ->
                        EmittedBy(e, IF fld.omit /\ x = 0 THEN <<>> ELSE emitIntElement(fld.x, x))
                   [] fld.kind = "time" ->
                        EmittedBy(e, emitStringElement(fld.x, Format(RFC3339Nano, x)))
                   [] fld.kind \in {"ptr", "slice"} ->
                        ThenAll([j \in 1..Len(x) |-> MarshalValue(fld.of, x[j], fld.x, tl, e)])
             attrs == Flatten([i \in 1..Len(fs) |->
                          IF fs[i].mode # "attr" THEN <<>>
                          ELSE <<Attr(<<fs[i].x>>, IF fs[i].kind = "float" THEN FloatText(v[fs[i].f])
                                                   ELSE v[fs[i].f])>>])
             text  == Flatten([i \in 1..Len(fs) |->
                          IF fs[i].mode = "innerxml" THEN v[fs[i].f] ELSE <<>>])
             kids  == ThenAll([i \in 1..Len(fs) |->
                          IF fs[i].mode = "elem" THEN Kid(fs[i], v[fs[i].f]) ELSE Emitted(<<>>)])
         IN  Written(name, attrs, text, kids, NoError)

EncodeElementBackwards(T, v, name, tl, e) ==
    ThenAll([j \in 1..Len(v) |-> MarshalValue(T, v[Len(v) + 1 - j], name, tl, e)])

\* e.EncodeElement(v, start) on a pointer to a T or a slice of them: nothing
\* for nil, each element in turn
EncodeElement(T, v, name, tl, e) ==
    ThenAll([j \in 1..Len(v) |-> MarshalValue(T, v[j], name, tl, e)])

http == "http://"

httpForHttps == "http://"

https == "https://"

\* GPX.MarshalXML (gpx.go:608-662); attrOrder is the order in which this
\* range over the map g.XMLAttrs yields its entries
MarshalGPX(g, attrOrder, tl, e) ==
    LET baseURL == Word("www.topografix.com/GPX/") \o Replace(g.Version, ".", "/")
        xmlSchemaLocations ==
            << Word(http) \o baseURL, Word(https) \o baseURL \o Word("/gpx.xsd") >>
            \o g.XMLSchemaLocations
        attr == << Attr(<<"version">>, g.Version),
                   Attr(<<"creator">>, g.Creator),
                   Attr(<<"xmlns", "xsi">>, Word(http) \o Word("www.w3.org/2001/XMLSchema-instance")),
                   Attr(<<"xmlns">>, Word(http) \o baseURL),
                   Attr(<<"xsi", "schemaLocation">>, Join(xmlSchemaLocations, " ")) >>
                \o [i \in 1..Len(attrOrder) |-> Attr(attrOrder[i].k, attrOrder[i].v)]
        kids == ThenAll(<<
                   EncodeElement("MetadataType", g.Metadata, "metadata", tl, e),
                   EncodeElement("WptType", g.Wpt, "wpt", tl, e),
                   EncodeElement("RteType", g.Rte, "rte", tl, e),
                   EncodeElement("TrkType", g.Trk, "trk", tl, e) >>)
    IN  IF EncodeToken(e, "start", "gpx") # NoError
        THEN [els |-> <<>>, panic |-> FALSE, err |-> EncodeToken(e, "start", "gpx")]
        ELSE Written("gpx", attr, <<>>, kids, EncodeToken(e, "end", "gpx"))

(***************************************************************************)
(* Decoding.  Every step yields the value so far and the error, NoError    *)
(* when there is none.                                                     *)
(***************************************************************************)
SyntaxError == [kind |-> "XML syntax error: unexpected EOF"]

NumError(text) == [kind |-> "strconv: invalid syntax", value |-> text]

IsIntText(text) == Len(text) = 1 /\ text[1].k \in {"int", "digits4"}

\* strconv.ParseFloat on well-formed text
TextFloat(text) ==
    IF text[1].k = "float" THEN text[1].x
    ELSE FloatOfInt(text[1].n < 0, NatBits(IF text[1].n < 0 THEN 0 - text[1].n ELSE text[1].n))

Ok(v) == [v |-> v, err |-> NoError]

Failed(v, err) == [v |-> v, err |-> err]

\* encoding/xml copying character data into a field of a basic kind
CopyValue(kind, old, text) ==
    CASE kind \in {"string", "time", "bytes"} -> Ok(text)
      [] kind = "ptrstring" -> Ok(Some(text))
      [] kind = "strings" -> Ok(Append(old, text))
      [] kind = "int" ->
            IF text = <<>> THEN Ok(0)
            ELSE IF IsIntText(text) THEN Ok(text[1].n) ELSE Failed(old, NumError(text))
      [] kind = "ints" ->
            IF text = <<>> THEN Ok(Append(old, 0))
            ELSE IF IsIntText(text) THEN Ok(Append(old, text[1].n)) ELSE Failed(old, NumError(text))
      [] kind = "float" ->
            IF text = <<>> THEN Ok(FZero)
            ELSE IF IsIntText(text) \/ (Len(text) = 1 /\ IsKind(text, "float"))
            THEN Ok(TextFloat(text)) ELSE Failed(old, NumError(text))

\* the first of the fields fs that takes an attribute or a child element of
\* this name, the tag name compared with the local part of the name; none
\* has kind "none"
FieldFor(fs, mode, local) ==
    IF \A i \in 1..Len(fs) : fs[i].mode # mode \/ fs[i].x # local THEN [kind |-> "none"]
    ELSE fs[MinOf({i \in 1..Len(fs) : fs[i].mode = mode /\ fs[i].x = local})]

\* field f of v set to the value copied, unless copying failed
SetField(v, f, r) == IF r.err # NoError THEN Failed(v, r.err) ELSE Ok([v EXCEPT ![f] = r.v])

DecodeAttr(fld, v, a) ==
    IF fld.kind = "none" THEN Ok(v) ELSE SetField(v, fld.f, CopyValue(fld.kind, v[fld.f], a.value))

\* the attributes from the i-th on, while no error
RECURSIVE DecodeAttrs(_, _, _, _)
DecodeAttrs(fs, s, attrs, i) ==
    IF s.err # NoError \/ i > Len(attrs) THEN s
    ELSE DecodeAttrs(fs, DecodeAttr(FieldFor(fs, "attr", attrs[i].name[Len(attrs[i].name)]),
                                    s.v, attrs[i]),
                     attrs, i + 1)

RECURSIVE WellFormed(_)
WellFormed(el) == el.closed /\ \A i \in 1..Len(el.kids) : WellFormed(el.kids[i])

\* CopyrightType.UnmarshalXML (gpx.go:548-577): the loop over the year layouts
CopyrightError(text) == [kind |-> "couldn't parse Copyright year", value |-> text]

RECURSIVE CopyrightYearFrom(_, _, _)
CopyrightYearFrom(c, text, i) ==
    IF i > Len(copyrightYearLayouts) THEN Failed(c, CopyrightError(text))
    ELSE LET r == Parse(copyrightYearLayouts[i], text)
         IN  IF r.err = NoError THEN Ok([c EXCEPT !.Year = Year(r.t)])
             ELSE CopyrightYearFrom(c, text, i + 1)

UnmarshalCopyrightYearOptional(c, alias, tl) ==
    IF alias.err # NoError THEN Failed(c, alias.err)
    ELSE IF alias.v.Year = None
              \/ CopyrightYearFrom(c, alias.v.Year[1], 1).err # NoError
    THEN Ok([c EXCEPT !.Author = alias.v.Author, !.License = alias.v.License])
    ELSE CopyrightYearFrom([c EXCEPT !.Author = alias.v.Author, !.License = alias.v.License],
                           alias.v.Year[1], 1)

\* CopyrightType.UnmarshalXML (gpx.go:548-577), alias what d.DecodeElement
\* made of the element
UnmarshalCopyright(c, alias, tl) ==
    IF alias.err # NoError THEN Failed(c, alias.err)
    ELSE IF alias.v.Year = None
    THEN Ok([c EXCEPT !.Author = alias.v.Author, !.License = alias.v.License])
    ELSE CopyrightYearFrom([c EXCEPT !.Author = alias.v.Author, !.License = alias.v.License],
                           alias.v.Year[1], 1)

UnmarshalWptInPlace(w, e, tl) ==
    IF e.err # NoError THEN Failed(w, e.err)
    ELSE IF e.v.Time = <<>> THEN Ok([e.v EXCEPT !.Time = ZeroTime])
    ELSE IF parseTime(tl, e.v.Time).err # NoError
    THEN Failed([e.v EXCEPT !.Time = w.Time], parseTime(tl, e.v.Time).err)
    ELSE Ok([e.v EXCEPT !.Time = parseTime(tl, e.v.Time).t])

\* MetadataType.UnmarshalXML (gpx.go:677-711), e what d.DecodeElement made of
\* the element
UnmarshalMetadata(m, e, tl) ==
    IF e.err # NoError THEN Failed(m, e.err)
    ELSE IF e.v.Time = <<>> THEN Ok([e.v EXCEPT !.Time = ZeroTime])
    ELSE IF parseTime(tl, e.v.Time).err # NoError THEN Failed(m, parseTime(tl, e.v.Time).err)
    ELSE Ok([e.v EXCEPT !.Time = parseTime(tl, e.v.Time).t])

UnmarshalWptParsesAbsentTime(w, e, tl) ==
    IF e.err # NoError THEN Failed(w, e.err)
    ELSE IF parseTime(tl, e.v.Time).err # NoError THEN Failed(w, parseTime(tl, e.v.Time).err)
    ELSE Ok([e.v EXCEPT !.Time = parseTime(tl, e.v.Time).t])

\* WptType.UnmarshalXML (gpx.go:884-946), likewise
UnmarshalWpt(w, e, tl) ==
    IF e.err # NoError THEN Failed(w, e.err)
    ELSE IF e.v.Time = <<>> THEN Ok([e.v EXCEPT !.Time = ZeroTime])
    ELSE IF parseTime(tl, e.v.Time).err # NoError THEN Failed(w, parseTime(tl, e.v.Time).err)
    ELSE Ok([e.v EXCEPT !.Time = parseTime(tl, e.v.Time).t])

\* the UnmarshalXML method of T, if it has one, after its d.DecodeElement
UnmarshalXML(T, recv, e, tl) ==
    CASE T = "WptType" -> UnmarshalWpt(recv, e, tl)
      [] T = "MetadataType" -> UnmarshalMetadata(recv, e, tl)
      [] T = "CopyrightType" -> UnmarshalCopyright(recv, e, tl)
      [] OTHER -> e

\* the value that d.DecodeElement is given: the struct an UnmarshalXML method
\* declares, else the receiver itself
DecodeInto(T, recv) ==
    CASE T \in {"WptType", "MetadataType"} -> [ZeroStruct(T) EXCEPT !.Time = <<>>]
      [] T = "CopyrightType" -> ZeroStruct("CopyrightAlias")
      [] OTHER -> recv

DecodeType(T) == IF T = "CopyrightType" THEN "CopyrightAlias" ELSE T

\* what a child element is decoded into: what the pointer field holds, a new
\* value if it is nil, and a new element of a slice field
Receiver(fld, v) ==
    IF fld.kind = "ptr" /\ v[fld.f] # None THEN v[fld.f][1] ELSE ZeroStruct(fld.of)

\* the pointer is set whatever the outcome r; the slice is cut back on error
StoreDecoded(fld, v, r) ==
    IF fld.kind = "ptr" THEN Failed([v EXCEPT ![fld.f] = Some(r.v)], r.err)
    ELSE IF r.err # NoError THEN Failed(v, r.err)
    ELSE Ok([v EXCEPT ![fld.f] = Append(@, r.v)])

RECURSIVE DecodeElement(_, _, _, _, _)

\* the child element kid into the field fld that takes it; one that no field
\* takes is skipped
DecodeKid(fld, v, kid, tl) ==
    CASE fld.kind = "none" -> IF WellFormed(kid) THEN Ok(v) ELSE Failed(v, SyntaxError)
      [] fld.kind \in {"ptr", "slice"} ->
            StoreDecoded(fld, v,
                UnmarshalXML(fld.of, Receiver(fld, v),
                    DecodeElement(DecodeType(fld.of), Ok(DecodeInto(fld.of, Receiver(fld, v))),
                                  kid, 0, tl),
                    tl))
      [] OTHER ->
            IF ~WellFormed(kid) THEN Failed(v, SyntaxError)
            ELSE SetField(v, fld.f, CopyValue(fld.kind, v[fld.f], kid.text))

\* d.DecodeElement(&v, &start) by the tags of T, s the value and the error so
\* far: the attributes (i = 0), then the children from the i-th on in
\* document order, then the inner XML
DecodeElement(T, s, el, i, tl) ==
    IF s.err # NoError THEN s
    ELSE IF i = 0 THEN DecodeElement(T, DecodeAttrs(Fields(T), s, el.attrs, 1), el, 1, tl)
    ELSE IF i <= Len(el.kids)
    THEN DecodeElement(T, DecodeKid(FieldFor(Fields(T), "elem", el.kids[i].name), s.v,
                                    el.kids[i], tl),
                       el, i + 1, tl)
    ELSE IF ~el.closed THEN Failed(s.v, SyntaxError)
    ELSE IF FieldFor(Fields(T), "innerxml", "").kind # "none" THEN Ok([s.v EXCEPT !.XML = el.text])
    ELSE s

\* decoding the element el into the value recv of type T
Unmarshal(T, recv, el, tl) ==
    UnmarshalXML(T, recv, DecodeElement(DecodeType(T), Ok(DecodeInto(T, recv)), el, 0, tl), tl)

\* d.Decode(gpx) on the input (None: an empty stream): the root must be <gpx>
DecodeGPX(input, tl) ==
    IF input = None THEN Failed(ZeroStruct("GPX"), [kind |-> "EOF"])
    ELSE IF input[1].name # "gpx"
    THEN Failed(ZeroStruct("GPX"), [kind |-> "expected element type <gpx>", have |-> input[1].name])
    ELSE DecodeElement("GPX", Ok(ZeroStruct("GPX")), input[1], 0, tl)

(***************************************************************************)
(* Geometry: the go-geom layouts as NewWptType uses them.                  *)
(***************************************************************************)
\* the layouts: the five of go-geom and two custom ones, Layout(5) and Layout(6)
GeomLayouts == {"NoLayout", "XY", "XYZ", "XYM", "XYZM", "Layout5", "Layout6"}

Stride(layout) ==
    CASE layout = "NoLayout" -> 0 [] layout = "XY" -> 2 [] layout \in {"XYZ", "XYM"} -> 3
      [] layout = "XYZM" -> 4 [] layout = "Layout5" -> 5 [] layout = "Layout6" -> 6

ZIndex(layout) == IF layout \in {"NoLayout", "XY", "XYM"} THEN 0 - 1 ELSE 2

MIndex(layout) ==
    CASE layout \in {"NoLayout", "XY", "XYZ"} -> 0 - 1 [] layout = "XYM" -> 2 [] OTHER -> 3

NewWptTypeLatLon(layout, flatCoords) ==
    LET w0 == [ZeroStruct("WptType") EXCEPT !.Lat = flatCoords[0 + 1], !.Lon = flatCoords[1 + 1]]
        w1 == IF ZIndex(layout) # 0 - 1 THEN [w0 EXCEPT !.Ele = flatCoords[ZIndex(layout) + 1]] ELSE w0
    IN  IF MIndex(layout) # 0 - 1 THEN [w1 EXCEPT !.Time = MToTime(flatCoords[MIndex(layout) + 1])]
        ELSE w1

NewWptTypeNoTime(layout, flatCoords) ==
    LET w0 == [ZeroStruct("WptType") EXCEPT !.Lat = flatCoords[1 + 1], !.Lon = flatCoords[0 + 1]]
    IN  IF ZIndex(layout) # 0 - 1 THEN [w0 EXCEPT !.Ele = flatCoords[ZIndex(layout) + 1]] ELSE w0

\* NewWptType (gpx.go:774-788); flatCoords is indexed from 0 in the source
NewWptType(layout, flatCoords) ==
    LET w0 == [ZeroStruct("WptType") EXCEPT !.Lat = flatCoords[1 + 1], !.Lon = flatCoords[0 + 1]]
        w1 == IF ZIndex(layout) # 0 - 1 THEN [w0 EXCEPT !.Ele = flatCoords[ZIndex(layout) + 1]] ELSE w0
    IN  IF MIndex(layout) # 0 - 1 THEN [w1 EXCEPT !.Time = MToTime(flatCoords[MIndex(layout) + 1])]
        ELSE w1

appendFlatCoordsLatLon(flatCoords, w, layout) ==
    IF layout = "NoLayout" THEN flatCoords
    ELSE flatCoords \o <<w.Lat, w.Lon>> \o [i \in 1..(Stride(layout) - 2) |-> FloatOfNat(0)]

appendFlatCoordsUnpadded(flatCoords, w, layout) ==
    CASE layout = "NoLayout" -> flatCoords
      [] layout = "XY" -> flatCoords \o <<w.Lon, w.Lat>>
      [] layout = "XYZ" -> flatCoords \o <<w.Lon, w.Lat, w.Ele>>
      [] layout = "XYM" -> flatCoords \o <<w.Lon, w.Lat, TimeToM(w.Time)>>
      [] OTHER -> flatCoords \o <<w.Lon, w.Lat, w.Ele, TimeToM(w.Time)>>

\* WptType.appendFlatCoords (gpx.go:948-965)
appendFlatCoords(flatCoords, w, layout) ==
    CASE layout = "NoLayout" -> flatCoords
      [] layout = "XY" -> flatCoords \o <<w.Lon, w.Lat>>
      [] layout = "XYZ" -> flatCoords \o <<w.Lon, w.Lat, w.Ele>>
      [] layout = "XYM" -> flatCoords \o <<w.Lon, w.Lat, TimeToM(w.Time)>>
      [] layout = "XYZM" -> flatCoords \o <<w.Lon, w.Lat, w.Ele, TimeToM(w.Time)>>
      [] OTHER -> (flatCoords \o <<w.Lon, w.Lat, w.Ele, TimeToM(w.Time)>>)
                  \o [i \in 1..(Stride(layout) - 4) |-> FloatOfNat(0)]

RECURSIVE appendAll(_, _, _)

\* for _, p := range wpts { flatCoords = p.appendFlatCoords(flatCoords, layout) }
appendAll(flatCoords, wpts, layout) ==
    IF wpts = <<>> THEN flatCoords
    ELSE appendAll(appendFlatCoords(flatCoords, wpts[1], layout), Tail(wpts), layout)

\* WptType.Geom (gpx.go:791-793): a point
WptGeom(w, layout) == [layout |-> layout, flatCoords |-> appendFlatCoords(<<>>, w, layout)]

\* RteType.Geom (gpx.go:721-727): a line string
RteGeom(r, layout) == [layout |-> layout, flatCoords |-> appendAll(<<>>, r.RtePt, layout)]

\* TrkSegType.Geom (gpx.go:765-771): a line string
TrkSegGeom(ts, layout) == [layout |-> layout, flatCoords |-> appendAll(<<>>, ts.TrkPt, layout)]

\* TrkType.Geom (gpx.go:741-755): a multi-line string. The first loop
\* gives ends (end += layout.Stride() * len(ts.TrkPt); ends[i] = end), the
\* second the coordinates
TrkGeom(t, layout) ==
    LET RECURSIVE Ends(_, _)
        Ends(trkSegs, end) ==
            IF trkSegs = <<>> THEN <<>>
            ELSE <<end + Stride(layout) * Len(trkSegs[1].TrkPt)>>
                 \o Ends(Tail(trkSegs), end + Stride(layout) * Len(trkSegs[1].TrkPt))
        RECURSIVE FlatCoords(_, _)
        FlatCoords(flatCoords, trkSegs) ==
            IF trkSegs = <<>> THEN flatCoords
            ELSE FlatCoords(appendAll(flatCoords, trkSegs[1].TrkPt, layout), Tail(trkSegs))
    IN  [layout |-> layout, flatCoords |-> FlatCoords(<<>>, t.TrkSeg),
         ends |-> Ends(t.TrkSeg, 0)]

newWptTypesFirstTuple(g) ==
    IF Stride(g.layout) = 0 THEN [panic |-> TRUE, wpts |-> <<>>]
    ELSE [panic |-> FALSE,
          wpts |-> [i \in 1..(Len(g.flatCoords) \div Stride(g.layout)) |->
                       NewWptType(g.layout, g.flatCoords)]]

\* newWptTypes (gpx.go:1010-1033); g.NumCoords() is len(flatCoords) / stride,
\* which panics on the stride 0 of NoLayout; start is stride * i
newWptTypes(g) ==
    IF Stride(g.layout) = 0 THEN [panic |-> TRUE, wpts |-> <<>>]
    ELSE [panic |-> FALSE,
          wpts |-> [i \in 1..(Len(g.flatCoords) \div Stride(g.layout)) |->
                       NewWptType(g.layout,
                                  SubSeq(g.flatCoords, Stride(g.layout) * (i - 1) + 1,
                                         Stride(g.layout) * i))]]

\* NewRteType (gpx.go:714-718)
NewRteType(g) ==
    LET r == newWptTypes(g)
    IN  [panic |-> r.panic, v |-> [ZeroStruct("RteType") EXCEPT !.RtePt = r.wpts]]

\* NewTrkSegType (gpx.go:758-762)
NewTrkSegType(g) ==
    LET r == newWptTypes(g)
    IN  [panic |-> r.panic, v |-> [ZeroStruct("TrkSegType") EXCEPT !.TrkPt = r.wpts]]

NewTrkTypeOneSegment(g) ==
    [panic |-> Stride(g.layout) = 0,
     v |-> [ZeroStruct("TrkType") EXCEPT
              !.TrkSeg = IF Stride(g.layout) = 0 THEN <<>>
                         ELSE <<NewTrkSegType([layout |-> g.layout,
                                               flatCoords |-> g.flatCoords]).v>>]]

\* NewTrkType (gpx.go:730-738): one NewTrkSegType for each of the
\* g.NumLineStrings() lines; g.LineString(i), i from 0, holds the coordinates
\* from the end of the line before to ends[i]
NewTrkType(g) ==
    LET LineString(i) ==
            [layout |-> g.layout,
             flatCoords |-> SubSeq(g.flatCoords, (IF i = 0 THEN 0 ELSE g.ends[i]) + 1,
                                   g.ends[i + 1])]
        trkSegs == [i \in 1..Len(g.ends) |-> NewTrkSegType(LineString(i - 1))] \o <<>>
    IN  [panic |-> \E i \in 1..Len(trkSegs) : trkSegs[i].panic,
         v |-> [ZeroStruct("TrkType") EXCEPT
                  !.TrkSeg = [i \in 1..Len(trkSegs) |-> trkSegs[i].v]]]

(***************************************************************************)
(* SpecTime: a time t, the measure TimeToM gives for it, the time MToTime  *)
(* gives back, and the waypoint NewWptType builds from a point with that   *)
(* measure.                                                                *)
(***************************************************************************)
\* times from 1969 to 2006, on and off the second, in both locations, and
\* the zero time
Times ==
    {ZeroTime} \cup
    [day : {0 - 1, 0, 1, 10957, 13150}, sod : {0, 54245},
     nsec : {0, 1, 15, 100000000, 500000000, 123456789, 999999999}, loc : {"UTC", "Local"}]

\* the flat coordinates of a point at (7, 46), height 1000, with measure m
PointCoords(layout, m) ==
    <<FloatOfNat(7), FloatOfNat(46)>>
    \o (IF ZIndex(layout) # 0 - 1 THEN <<FloatOfNat(1000)>> ELSE <<>>)
    \o (IF MIndex(layout) # 0 - 1 THEN <<m>> ELSE <<>>)

OthersIdle(used) ==
    /\ IF "timeLayouts" \in used THEN TRUE ELSE timeLayouts = DefaultTimeLayouts
    /\ IF "tm" \in used THEN TRUE ELSE tm = Idle
    /\ IF "pt" \in used THEN TRUE ELSE pt = Idle
    /\ IF "cr" \in used THEN TRUE ELSE cr = Idle
    /\ IF "io" \in used THEN TRUE ELSE io = Idle
    /\ IF "thr" \in used THEN TRUE ELSE thr = Idle
    /\ IF "wp" \in used THEN TRUE ELSE wp = Idle
    /\ IF "ge" \in used THEN TRUE ELSE ge = Idle
    /\ IF "ms" \in used THEN TRUE ELSE ms = Idle

InitTime ==
    /\ tm \in [pc : {"t"}, t : Times]
    /\ OthersIdle({"tm"})

TimeToMStep ==
    /\ tm.pc = "t"
    /\ tm' = [pc |-> "m", t |-> tm.t, m |-> TimeToM(tm.t)]
    /\ UNCHANGED <<timeLayouts, pt, cr, io, thr, wp, ge, ms>>

MToTimeStep ==
    /\ tm.pc = "m"
    /\ tm' = [pc |-> "back", t |-> tm.t, m |-> tm.m, back |-> MToTime(tm.m)]
    /\ UNCHANGED <<timeLayouts, pt, cr, io, thr, wp, ge, ms>>

NewWptTypeStep ==
    /\ tm.pc = "back"
    /\ \E layout \in {"XY", "XYZ", "XYM", "XYZM"} :
          tm' = [pc |-> "wpt", t |-> tm.t, m |-> tm.m, back |-> tm.back, layout |-> layout,
                 w |-> NewWptType(layout, PointCoords(layout, tm.m))]
    /\ UNCHANGED <<timeLayouts, pt, cr, io, thr, wp, ge, ms>>

NextTime == TimeToMStep \/ MToTimeStep \/ NewWptTypeStep

SpecTime == InitTime /\ [][NextTime]_vars

(***************************************************************************)
(* Claims about the time <-> measure conversions, under SpecTime.          *)
(***************************************************************************)
Epoch == [day |-> 0, sod |-> 0, nsec |-> 0]

HasM(layout) == layout \in {"XYM", "XYZM"}

HalfSecond == Second \div 2

\* C6 as stated: MToTime(0) is the zero time, so an absent time is still
\* absent after TimeToM and MToTime, and NewWptType gives a point whose M is 0
\* no time
C6_ZeroMeasureIsAbsent ==
    /\ (tm.pc \in {"back", "wpt"} /\ tm.m = FZero => IsZero(tm.back))
    /\ (tm.pc \in {"back", "wpt"} /\ IsZero(tm.t) => IsZero(tm.back))
    /\ (tm.pc = "wpt" /\ HasM(tm.layout) /\ tm.m = FZero => IsZero(tm.w.Time))

\* C6 as amended: MToTime(0) is the Unix epoch instant time.Unix(0, 0) and not
\* the zero time, so an absent time comes back from TimeToM and MToTime as the
\* epoch, and NewWptType gives a point whose M is 0 the epoch as its time
C6_ZeroMeasureIsEpoch ==
    /\ (tm.pc \in {"back", "wpt"} /\ tm.m = FZero => tm.back = Unix(0, 0) /\ ~IsZero(tm.back))
    /\ (tm.pc \in {"back", "wpt"} /\ IsZero(tm.t) => tm.m = FZero /\ SameInstant(tm.back, Epoch))
    /\ (tm.pc = "wpt" /\ HasM(tm.layout) /\ tm.m = FZero =>
            SameInstant(tm.w.Time, Epoch) /\ ~IsZero(tm.w.Time))
    /\ (tm.pc = "wpt" /\ ~HasM(tm.layout) => IsZero(tm.w.Time))

C6_Witness == tm.pc = "wpt" /\ IsZero(tm.t) /\ tm.layout = "XYM" /\ tm.w.Time = Unix(0, 0)

\* C7 as stated: for every time t but the zero time, MToTime(TimeToM(t)) is
\* the instant t, sub-second part included, and MToTime(0) is time.Unix(0, 0)
C7_MToTimeInvertsTimeToM ==
    /\ (tm.pc \in {"back", "wpt"} /\ ~IsZero(tm.t) => SameInstant(tm.back, tm.t))
    /\ (tm.pc \in {"back", "wpt"} /\ tm.m = FZero => tm.back = Unix(0, 0))

\* C7 as amended: for every time t but the zero time that lies on a whole or
\* a half second and whose Unix seconds fit 32 bits (1902 to 2037),
\* MToTime(TimeToM(t)) is the instant t, the Unix epoch included, and
\* MToTime(0) is time.Unix(0, 0)
C7_InvertsOnHalfSeconds ==
    /\ (tm.pc \in {"back", "wpt"} /\ ~IsZero(tm.t) /\ tm.t.nsec \in {0, HalfSecond} =>
            SameInstant(tm.back, tm.t))
    /\ (tm.pc \in {"back", "wpt"} /\ SameInstant(tm.t, Epoch) => tm.back = Unix(0, 0))

C7_Witness ==
    /\ tm.pc = "back" /\ tm.t.day = 13150 /\ tm.t.sod = 54245 /\ tm.t.nsec = HalfSecond
    /\ SameInstant(tm.back, tm.t)

\* m * 10^9 is within 2^-52 of n, relatively, and has its sign
NearNanos(m, n) ==
    LET a    == IF m.exp >= 0 THEN ShiftLeft(MulBits(m.mant, Second, 0), m.exp)
                ELSE MulBits(m.mant, Second, 0)
        b    == IF m.exp >= 0 THEN n.bits ELSE ShiftLeft(n.bits, 0 - m.exp)
        diff == IF CmpBits(a, b) >= 0 THEN SubBits(a, b) ELSE SubBits(b, a)
    IN  /\ (n.bits # <<>> => m.neg = n.neg)
        /\ CmpBits(TrimBits(ShiftLeft(TrimBits(diff), 52)), TrimBits(b)) <= 0

\* the seconds from the epoch to a time on a whole or a half second, as a
\* float64: the number of half seconds, the binary point moved one place
HalfFloat(t) ==
    LET s == UnixSec(t)
        h == IF t.nsec = HalfSecond THEN 1 ELSE 0
    IN  IF s >= 0 THEN Canon(FALSE, TrimBits(MulBits(NatBits(s), 2, h)), 0 - 1)
        ELSE IF h = 0 THEN Canon(TRUE, TrimBits(MulBits(NatBits(0 - s), 2, 0)), 0 - 1)
        ELSE Canon(TRUE, TrimBits(MulBits(NatBits(0 - s - 1), 2, 1)), 0 - 1)

\* C8: TimeToM(t) is 0 for the zero time and for the Unix epoch, and for any
\* other t the seconds from the epoch to t with their sign and their fraction:
\* exactly so on whole and half seconds, to the precision of a float64 else
\* (for times whose nanoseconds since the epoch fit the int64 of UnixNano)
C8_TimeToMSeconds ==
    tm.pc \in {"m", "back", "wpt"} =>
        /\ (IsZero(tm.t) => tm.m = FZero)
        /\ (SameInstant(tm.t, Epoch) => tm.m = FZero)
        /\ (~IsZero(tm.t) /\ tm.t.nsec \in {0, HalfSecond} => tm.m = HalfFloat(tm.t))
        /\ (~IsZero(tm.t) => NearNanos(tm.m, UnixNano(tm.t)))

C8_Witness ==
    /\ tm.pc = "m" /\ tm.t.day = 0 - 1 /\ tm.t.sod = 54245 /\ tm.t.nsec = 123456789
    /\ tm.m.neg /\ tm.m.exp < 0

(***************************************************************************)
(* SpecParseTime: options assign the layout list, parseTime reads it.      *)
(***************************************************************************)
CustomLayout == <<"2006-01-02", " ", "15:04:05">>

DateLayout == <<"2006-01-02">>

\* WithTimeLayout (gpx.go:593-597) and WithTimeLayouts (gpx.go:601-605): the
\* option is the list its closure assigns to timeLayouts
WithTimeLayout(layout) == [layouts |-> <<layout>>]

WithTimeLayouts(layouts) == [layouts |-> layouts]

Layouts == {RFC3339Nano, NoZoneLayout, CustomLayout, DateLayout}

ReadOptions ==
    {WithTimeLayout(l) : l \in Layouts}
    \cup {WithTimeLayouts(ls) : ls \in {<<>>, DefaultTimeLayouts, <<CustomLayout, RFC3339Nano>>,
                                        <<DateLayout, CustomLayout>>,
                                        <<NoZoneLayout, DateLayout, RFC3339Nano>>}}

\* 2006-01-02T15:04:05 and 1970-01-01T00:00:00.5, in UTC and five hours
\* east, as each layout writes them, and text that is no time
TimeTexts ==
    {Format(l, t) : l \in Layouts,
                    t \in [day : {13150, 0}, sod : {54245}, nsec : {0, 500000000},
                           loc : {"UTC", "+05:00"}]}
    \cup {<<>>, Word("yesterday")}

InitParseTime ==
    /\ timeLayouts = DefaultTimeLayouts
    /\ pt = [pc |-> "start"]
    /\ OthersIdle({"timeLayouts", "pt"})

\* an option of Read is run
ApplyOption ==
    /\ pt.pc = "start"
    /\ \E option \in ReadOptions : timeLayouts' = option.layouts
    /\ UNCHANGED <<tm, pt, cr, io, thr, wp, ge, ms>>

ParseTimeCall ==
    /\ pt.pc = "start"
    /\ \E value \in TimeTexts :
          LET r == parseTime(timeLayouts, value)
          IN  pt' = [pc |-> "done", value |-> value, t |-> r.t, err |-> r.err]
    /\ UNCHANGED <<timeLayouts, tm, cr, io, thr, wp, ge, ms>>

NextParseTime == ApplyOption \/ ParseTimeCall

SpecParseTime == InitParseTime /\ [][NextParseTime]_vars

\* the layouts of the list that parse the text
Parsing(layouts, value) == {i \in 1..Len(layouts) : Parse(layouts[i], value).err = NoError}

\* C9 as stated: parseTime returns what the first layout of the list that
\* parses the text gives, and the "no time layout" error when none does
C9_NoLayoutErrorWhenAllFail ==
    pt.pc = "done" =>
        IF Parsing(timeLayouts, pt.value) # {}
        THEN pt.err = NoError /\ pt.t = Parse(timeLayouts[MinOf(Parsing(timeLayouts, pt.value))], pt.value).t
        ELSE pt.err = errNoTimeLayout

\* C9 as amended: parseTime returns what the first layout of the list that
\* parses the text gives; when none does it returns the zero time and the
\* error of the first layout of the list, and the "no time layout" error only
\* when the list is empty
C9_FirstLayoutErrorWhenAllFail ==
    pt.pc = "done" =>
        IF Parsing(timeLayouts, pt.value) # {}
        THEN pt.err = NoError /\ pt.t = Parse(timeLayouts[MinOf(Parsing(timeLayouts, pt.value))], pt.value).t
        ELSE /\ pt.t = ZeroTime
             /\ pt.err = IF timeLayouts = <<>> THEN errNoTimeLayout
                         ELSE ParseError(timeLayouts[1], pt.value)

C9_Witness ==
    /\ pt.pc = "done" /\ Len(timeLayouts) = 3 /\ Parsing(timeLayouts, pt.value) = {}
    /\ pt.err = ParseError(NoZoneLayout, pt.value)

(***************************************************************************)
(* SpecCopyright: a copyright element is decoded into a CopyrightType.     *)
(***************************************************************************)
CopyrightYears == {1000, 2011, 2019, 9999}

\* the text of a year element: a year alone, with Z, with an offset, with
\* something else after it, no text, a word, a number of two digits
YearTexts ==
    {IntText(y) : y \in CopyrightYears}
    \cup {IntText(y) \o <<Lit("Z")>> : y \in CopyrightYears}
    \cup {IntText(y) \o <<StrAtom("zone", z)>> : y \in CopyrightYears, z \in {"+05:00", "-07:00"}}
    \cup {IntText(y) \o <<Lit("T")>> : y \in CopyrightYears}
    \cup {<<>>, Word("invalid"), IntText(19)}

CopyrightElement(author, year, license) ==
    Elem("copyright",
         IF author = None THEN <<>> ELSE <<Attr(<<"author">>, author[1])>>,
         (IF year = None THEN <<>> ELSE <<Elem("year", <<>>, <<>>, year[1])>>)
         \o (IF license = None THEN <<>> ELSE <<Elem("license", <<>>, <<>>, license[1])>>),
         <<>>)

\* the value decoded into is new, or set by an earlier copyright element
InitCopyright ==
    /\ cr \in [pc : {"start"},
               c0 : {ZeroStruct("CopyrightType"),
                     [Author |-> Word("Old"), Year |-> 1999, License |-> Word("old")]}]
    /\ OthersIdle({"cr"})

UnmarshalCopyrightCall ==
    /\ cr.pc = "start"
    /\ \E author \in {None, Some(Word("Author"))},
          year \in {None} \cup {Some(y) : y \in YearTexts},
          license \in {None, Some(Word("107344001197"))} :
          \E r \in {Unmarshal("CopyrightType", cr.c0, CopyrightElement(author, year, license),
                              timeLayouts)} :
              cr' = [pc |-> "done", c0 |-> cr.c0, author |-> author, year |-> year,
                     license |-> license, c |-> r.v, err |-> r.err]
    /\ UNCHANGED <<timeLayouts, tm, pt, io, thr, wp, ge, ms>>

NextCopyright == UnmarshalCopyrightCall

SpecCopyright == InitCopyright /\ [][NextCopyright]_vars

\* the year layouts that parse the text
YearParsing(text) ==
    {i \in 1..Len(copyrightYearLayouts) : Parse(copyrightYearLayouts[i], text).err = NoError}

RECURSIVE ApplyOptions(_, _)
ApplyOptions(tl, options) ==
    IF options = <<>> THEN tl ELSE ApplyOptions(Head(options).layouts, Tail(options))

\* Read (gpx.go:582-590): the layout list the options leave, the *GPX
\* returned, never nil, and the error of Decode
Read(input, options, tl) ==
    LET r == DecodeGPX(input, ApplyOptions(tl, options))
    IN  [timeLayouts |-> ApplyOptions(tl, options), gpx |-> Some(r.v), err |-> r.err]

\* GPX.Write (gpx.go:665-667); w is the set of the tokens that the writer
\* fails on, which the encoder made on it fails to write
Write(g, attrOrder, tl, w) == MarshalGPX(g, attrOrder, tl, w)

\* the orders a range over the map may take
Orders(m) == {o \in [1..Cardinality(m) -> m] : \A i, j \in 1..Cardinality(m) : o[i] = o[j] => i = j}

MaxCalls == 2

Time2006 == [day |-> 13150, sod |-> 54245, nsec |-> 0, loc |-> "UTC"]

Doc == [ZeroStruct("GPX") EXCEPT !.Version = IntText(1) \o <<Lit(".")>> \o IntText(1),
                                !.Creator = Word("creator")]

Wpt(time, name) ==
    [ZeroStruct("WptType") EXCEPT !.Lat = FloatOfNat(46), !.Lon = Canon(FALSE, NatBits(15), 0 - 1),
                                   !.Ele = FloatOfNat(1000), !.Time = time, !.Name = name]

WptFull ==
    [Wpt([Time2006 EXCEPT !.nsec = 123456789], Word("b")) EXCEPT
        !.Sat = 5, !.DGPSID = <<1, 1024>>, !.HDOP = Canon(FALSE, NatBits(5), 0 - 2),
        !.Link = <<[HREF |-> Word("http://example.com"), Text |-> Word("t"), Type |-> <<>>]>>,
        !.Extensions = Some([XML |-> Word("<e/>")])]

Metadata ==
    [ZeroStruct("MetadataType") EXCEPT
        !.Name = Word("n"), !.Time = Time2006,
        !.Copyright = Some([Author |-> Word("a"), Year |-> 2019, License |-> <<>>]),
        !.Bounds = Some([MinLat |-> FloatOfNat(1), MinLon |-> FloatOfNat(2),
                         MaxLat |-> FloatOfNat(3), MaxLon |-> FloatOfNat(4)]),
        !.Extensions = Some([XML |-> Word("<m/>")])]

\* the documents given to Write
Docs ==
    {Doc,
     [Doc EXCEPT !.Wpt = <<Wpt(Time2006, Word("a"))>>],
     [Doc EXCEPT !.Wpt = <<Wpt(ZeroTime, <<>>), WptFull>>, !.Metadata = Some(Metadata)],
     [Doc EXCEPT !.Rte = <<[ZeroStruct("RteType") EXCEPT !.Name = Word("r"), !.Number = 7,
                                                       !.RtePt = <<Wpt(Time2006, <<>>)>>]>>,
                 !.Trk = <<[ZeroStruct("TrkType") EXCEPT !.TrkSeg =
                              <<[TrkPt |-> <<Wpt(Time2006, <<>>), WptFull>>, Extensions |-> None]>>]>>],
     [Doc EXCEPT !.Version = IntText(1) \o <<Lit(".")>> \o IntText(0),
                 !.Metadata = Some([ZeroStruct("MetadataType") EXCEPT !.Desc = Word("d")]),
                 !.Rte = <<[ZeroStruct("RteType") EXCEPT
                              !.Extensions = Some([XML |-> Word("<r/>")])]>>,
                 !.Trk = <<[ZeroStruct("TrkType") EXCEPT
                              !.Extensions = Some([XML |-> Word("<t/>")]),
                              !.TrkSeg = <<[TrkPt |-> <<>>,
                                            Extensions |-> Some([XML |-> Word("<s/>")])]>>]>>],
     [Doc EXCEPT !.Metadata = Some([ZeroStruct("MetadataType") EXCEPT !.Time = Time2006]),
                 !.Wpt = <<Wpt(ZeroTime, Word("a")), Wpt(ZeroTime, Word("b"))>>,
                 !.Rte = <<[ZeroStruct("RteType") EXCEPT !.Name = Word("r1")],
                           [ZeroStruct("RteType") EXCEPT !.Name = Word("r2")]>>,
                 !.Trk = <<[ZeroStruct("TrkType") EXCEPT !.Name = Word("t1")],
                           [ZeroStruct("TrkType") EXCEPT !.Name = Word("t2")]>>],
     [Doc EXCEPT !.Extensions = Some([XML |-> Word("<a/>")])],
     [Doc EXCEPT !.XMLAttrs = {[k |-> <<"xmlns", "a">>, v |-> Word("urn:a")],
                               [k |-> <<"xmlns", "b">>, v |-> Word("urn:b")]}],
     [Doc EXCEPT !.XMLSchemaLocations = <<Word("urn:a"), Word("a.xsd")>>]}

\* <gpx version="1.1" creator="creator"> with the children given
InputGPX(kids) ==
    Elem("gpx", <<Attr(<<"version">>, Doc.Version), Attr(<<"creator">>, Doc.Creator)>>, kids, <<>>)

\* <wpt lat="1" lon="2"><time>text</time></wpt>
InputWpt(text) ==
    Elem("wpt", <<Attr(<<"lat">>, IntText(1)), Attr(<<"lon">>, IntText(2))>>,
         <<Elem("time", <<>>, <<>>, text)>>, <<>>)

\* the inputs given to Read: the time of the waypoint in three layouts and
\* unparseable, a copyright year unparseable, a number unparseable, input
\* that ends before the root is closed, another root, and no input at all
Inputs ==
    {Some(InputGPX(<<InputWpt(Format(l, Time2006))>>)) : l \in {RFC3339Nano, NoZoneLayout, CustomLayout}}
    \cup {Some(InputGPX(<<InputWpt(Word("yesterday"))>>)),
          Some(InputGPX(<<Elem("metadata", <<>>,
                               <<CopyrightElement(None, Some(Word("invalid")), None)>>, <<>>),
                          InputWpt(<<>>)>>)),
          Some(InputGPX(<<InputWpt(<<>>),
                          Elem("wpt", <<Attr(<<"lat">>, Word("north"))>>, <<>>, <<>>)>>)),
          Some([InputGPX(<<InputWpt(<<>>)>>) EXCEPT !.closed = FALSE]),
          Some(Elem("kml", <<>>, <<>>, <<>>)),
          None}

Init ==
    /\ timeLayouts = DefaultTimeLayouts
    /\ io = [calls |-> 0, op |-> "none", stream |-> None, doc |-> None]
    /\ OthersIdle({"timeLayouts", "io"})

\* Read is called on an input from outside or on what Write wrote last
ReadCall ==
    /\ io.op # "panic" /\ io.calls < MaxCalls
    /\ \E input \in ({Some(i) : i \in Inputs} \cup {None}),
          options \in {<<>>, <<WithTimeLayout(CustomLayout)>>, <<WithTimeLayouts(<<>>)>>,
                       <<WithTimeLayouts(<<CustomLayout, RFC3339Nano>>)>>,
                       <<WithTimeLayout(DateLayout), WithTimeLayouts(DefaultTimeLayouts)>>} :
          /\ input = None => io.stream # None
          /\ \E r \in {Read(IF input = None THEN io.stream ELSE input[1], options, timeLayouts)} :
                 /\ timeLayouts' = r.timeLayouts
                 /\ io' = [calls |-> io.calls + 1, op |-> "Read", stream |-> io.stream,
                           doc |-> io.doc, fromStream |-> input = None, options |-> options,
                           input |-> IF input = None THEN io.stream ELSE input[1],
                           gpx |-> r.gpx, err |-> r.err]
    /\ UNCHANGED <<tm, pt, cr, thr, wp, ge, ms>>

\* the writers given to Write: one that takes everything, and those that
\* fail on one token
Writers ==
    {{}} \cup {{<<"start", n>>} : n \in {"gpx", "wpt", "trkpt"}}
         \cup {{<<"end", n>>} : n \in {"gpx", "wpt", "rtept"}}
         \cup {{<<"elem", n>>} : n \in {"metadata", "ele", "time", "name", "link", "dgpsid",
                                        "extensions", "rte", "trk"}}

\* Write is called on a document; a panic in it ends the program, and after
\* an error the stream holds what was written before it
WriteCall ==
    /\ io.op # "panic" /\ io.calls < MaxCalls
    /\ \E g \in Docs, w \in Writers : \E attrOrder \in Orders(g.XMLAttrs) :
          \E r \in {Write(g, attrOrder, timeLayouts, w)} :
              io' = [calls |-> io.calls + 1,
                     op |-> IF r.panic THEN "panic"
                            ELSE IF r.err # NoError THEN "Write failed" ELSE "Write",
                     stream |-> r.els, doc |-> Some(g), w |-> w, err |-> r.err]
    /\ UNCHANGED <<timeLayouts, tm, pt, cr, thr, wp, ge, ms>>

Next == ReadCall \/ WriteCall

Spec == Init /\ [][Next]_vars

(***************************************************************************)
(* Claims about Read and Write, under Spec.                                *)
(***************************************************************************)
\* C1: a Read without options of what Write wrote for a document succeeds
\* and returns a document equal to the one written, field for field, the
\* root Extensions, the extra attributes and the extra schema locations too
C1_RoundTrip ==
    io.op = "Read" /\ io.fromStream /\ io.options = <<>> /\ timeLayouts = DefaultTimeLayouts
        => io.err = NoError /\ io.gpx = io.doc

\* C2: a Read that returns an error returns no document with it, neither
\* filled in part nor filled at all
C2_NoDocumentWithError ==
    io.op = "Read" /\ io.err # NoError => io.gpx = None \/ io.gpx = Some(ZeroStruct("GPX"))

\* C3: what a Read returns is what Read returns for that input and those
\* options in a program that has made no call before, whose layout list is the
\* default one
C3_ReadDependsOnItsArguments ==
    io.op = "Read" =>
        /\ io.gpx = Read(io.input, io.options, DefaultTimeLayouts).gpx
        /\ io.err = Read(io.input, io.options, DefaultTimeLayouts).err

\* the text of the time children of the i-th wpt child of the root written
WrittenTimes(i) ==
    LET wpts == SelectSeq(io.stream[1].kids, LAMBDA e : e.name = "wpt")
        time == SelectSeq(wpts[i].kids, LAMBDA e : e.name = "time")
    IN  [j \in 1..Len(time) |-> time[j].text]

\* C5: whatever the Reads before it were given, a Write that returns has
\* written, for every waypoint of the root that has a time, that time in UTC
\* in the layout RFC3339 with nanoseconds
C5_WriteLayoutFixed ==
    io.op = "Write" =>
        \A i \in 1..Len(io.doc[1].Wpt) :
            WrittenTimes(i) = IF IsZero(io.doc[1].Wpt[i].Time) THEN <<>>
                              ELSE <<Format(RFC3339Nano, InUTC(io.doc[1].Wpt[i].Time))>>

\* C11: two Writes of the same document, one after the other, write the
\* same output, the extra attributes of the root in the same order
C11_WriteDeterministic ==
    [][io.op = "Write" /\ io'.op = "Write" /\ io'.doc = io.doc => io'.stream = io.stream]_vars

\* the attribute of the root written that stands at place i
RootAttr(i) == io.stream[1].attrs[i]

\* the URL the xmlns attribute holds for a version: the version's dots turned
\* into slashes after the scheme given and www.topografix.com/GPX/
BaseURL(scheme, version) ==
    <<StrAtom("word", scheme), StrAtom("word", "www.topografix.com/GPX/")>>
    \o [i \in 1..Len(version) |-> IF version[i].s = "." THEN StrAtom("lit", "/") ELSE version[i]]

\* the tokens after a schema location's first two, a space before each
ExtraLocations(g) ==
    Flatten([i \in 1..Len(g.XMLSchemaLocations) |-> <<StrAtom("lit", " ")>> \o g.XMLSchemaLocations[i]])

\* the first four attributes of the root: version, creator, xmlns:xsi, xmlns
RootAttrsInOrder(g) ==
    /\ Len(io.stream[1].attrs) >= 5
    /\ RootAttr(1) = [name |-> <<"version">>, value |-> g.Version]
    /\ RootAttr(2) = [name |-> <<"creator">>, value |-> g.Creator]
    /\ RootAttr(3).name = <<"xmlns", "xsi">>
    /\ RootAttr(4) = [name |-> <<"xmlns">>, value |-> BaseURL("http://", g.Version)]
    /\ RootAttr(5).name = <<"xsi", "schemaLocation">>

KidsNamed(el, name) == SelectSeq(el.kids, LAMBDA e : e.name = name)

\* the element el written for the value v holds v's payload in one
\* extensions element, and no extensions element if v has none
ExtensionsOf(v, el) ==
    KidsNamed(el, "extensions") =
        (IF v.Extensions = None THEN <<>>
         ELSE <<Elem("extensions", <<>>, <<>>, v.Extensions[1].XML)>>)

\* the same of every value of vs, written as the elements of el named name
EachExtensionsOf(vs, el, name) ==
    /\ Len(KidsNamed(el, name)) = Len(vs)
    /\ \A i \in 1..Len(vs) : ExtensionsOf(vs[i], KidsNamed(el, name)[i])

ExtensionsBelowRoot(g, root) ==
    /\ g.Metadata # None =>
          /\ Len(KidsNamed(root, "metadata")) = 1
          /\ ExtensionsOf(g.Metadata[1], KidsNamed(root, "metadata")[1])
    /\ EachExtensionsOf(g.Wpt, root, "wpt")
    /\ EachExtensionsOf(g.Rte, root, "rte")
    /\ \A i \in 1..Len(g.Rte) :
          EachExtensionsOf(g.Rte[i].RtePt, KidsNamed(root, "rte")[i], "rtept")
    /\ EachExtensionsOf(g.Trk, root, "trk")
    /\ \A i \in 1..Len(g.Trk) :
          /\ EachExtensionsOf(g.Trk[i].TrkSeg, KidsNamed(root, "trk")[i], "trkseg")
          /\ \A j \in 1..Len(g.Trk[i].TrkSeg) :
                EachExtensionsOf(g.Trk[i].TrkSeg[j].TrkPt,
                                 KidsNamed(KidsNamed(root, "trk")[i], "trkseg")[j], "trkpt")

\* C17: Write emits the Extensions payload of the document, of its metadata
\* and of every route, track, track segment and waypoint, as it is, in an
\* extensions element, and no extensions element where there is no payload
C17_ExtensionsWritten ==
    io.op = "Write" =>
        ExtensionsOf(io.doc[1], io.stream[1]) /\ ExtensionsBelowRoot(io.doc[1], io.stream[1])

\* C17 below the root: the payloads of the metadata, routes, tracks, track
\* segments and waypoints are all written
C17_BelowRootWritten == io.op = "Write" => ExtensionsBelowRoot(io.doc[1], io.stream[1])

\* the element el written for the value v holds one time element if v has a
\* time and none if v.Time is the zero time
TimeOf(v, el) == Len(KidsNamed(el, "time")) = (IF IsZero(v.Time) THEN 0 ELSE 1)

EachTimeOf(vs, el, name) ==
    /\ Len(KidsNamed(el, name)) = Len(vs)
    /\ \A i \in 1..Len(vs) : TimeOf(vs[i], KidsNamed(el, name)[i])

WaypointTimes(g, root) ==
    /\ EachTimeOf(g.Wpt, root, "wpt")
    /\ \A i \in 1..Len(g.Rte) : EachTimeOf(g.Rte[i].RtePt, KidsNamed(root, "rte")[i], "rtept")
    /\ \A i \in 1..Len(g.Trk) : \A j \in 1..Len(g.Trk[i].TrkSeg) :
          EachTimeOf(g.Trk[i].TrkSeg[j].TrkPt,
                     KidsNamed(KidsNamed(root, "trk")[i], "trkseg")[j], "trkpt")

\* C23: Write emits a time element for a waypoint and for the metadata
\* exactly when its time is not the zero time
C23_TimeWhenSet ==
    io.op = "Write" =>
        /\ WaypointTimes(io.doc[1], io.stream[1])
        /\ io.doc[1].Metadata # None =>
              TimeOf(io.doc[1].Metadata[1], KidsNamed(io.stream[1], "metadata")[1])

\* C23 for the waypoints alone: Write emits their time element exactly when
\* the time is not the zero time
C23_WaypointTimeWhenSet == io.op = "Write" => WaypointTimes(io.doc[1], io.stream[1])

RECURSIVE UpToFailure(_, _)

\* what is written of the element el, and whether the writing failed, when
\* the writing of its tokens in order stops at the first of them in e
UpToFailure(el, e) ==
    IF <<"start", el.name>> \in e \/ <<"elem", el.name>> \in e
    THEN [els |-> <<>>, failed |-> TRUE]
    ELSE LET kids == [i \in 1..Len(el.kids) |-> UpToFailure(el.kids[i], e)] \o <<>>
             bad  == {i \in 1..Len(kids) : kids[i].failed}
             n    == IF bad = {} THEN Len(kids) ELSE MinOf(bad)
         IN  [els |-> <<[el EXCEPT !.kids = Flatten([i \in 1..n |-> kids[i].els]),
                                   !.closed = bad = {} /\ <<"end", el.name>> \notin e]>>,
              failed |-> bad # {} \/ <<"end", el.name>> \in e]

StopsAtFirstError(whole) ==
    /\ io.stream = UpToFailure(whole, io.w).els
    /\ io.err = (IF UpToFailure(whole, io.w).failed THEN EncodeError ELSE NoError)

\* C24: when a step of encoding the root or a waypoint fails (the start tag,
\* a child element, the end tag), Write returns that error and has written
\* what comes before the failing step and nothing after it, no later child
\* and no end tag of the elements that were open
C24_StopsAtFirstError ==
    io.op \in {"Write", "Write failed"} =>
        \E attrOrder \in Orders(io.doc[1].XMLAttrs) :
            StopsAtFirstError(Write(io.doc[1], attrOrder, timeLayouts, {}).els[1])

C24_Witness ==
    /\ io.op = "Write failed" /\ io.w = {<<"end", "wpt">>} /\ io.err = EncodeError
    /\ Len(io.doc[1].Wpt) = 2 /\ io.doc[1].Metadata # None
    /\ Len(io.stream) = 1 /\ ~io.stream[1].closed
    /\ Len(io.stream[1].kids) = 2 /\ io.stream[1].kids[1].name = "metadata"
    /\ io.stream[1].kids[2].name = "wpt" /\ ~io.stream[1].kids[2].closed

\* the element el, one of those named name under the root, holds the name
\* of the value v
NamesOf(vs, root, name) ==
    /\ Len(KidsNamed(root, name)) = Len(vs)
    /\ \A i \in 1..Len(vs) :
          KidsNamed(KidsNamed(root, name)[i], "name") =
              (IF vs[i].Name = <<>> THEN <<>> ELSE <<Elem("name", <<>>, <<>>, vs[i].Name)>>)

\* C25: the children of the root are the metadata if there is one, then
\* the waypoints, then the routes, then the tracks, each in stored order,
\* and nothing else
C25_RootChildOrder ==
    io.op = "Write" =>
        /\ [i \in 1..Len(io.stream[1].kids) |-> io.stream[1].kids[i].name] =
              (IF io.doc[1].Metadata = None THEN <<>> ELSE <<"metadata">>)
              \o [i \in 1..Len(io.doc[1].Wpt) |-> "wpt"]
              \o [i \in 1..Len(io.doc[1].Rte) |-> "rte"]
              \o [i \in 1..Len(io.doc[1].Trk) |-> "trk"]
        /\ NamesOf(io.doc[1].Wpt, io.stream[1], "wpt")
        /\ NamesOf(io.doc[1].Rte, io.stream[1], "rte")
        /\ NamesOf(io.doc[1].Trk, io.stream[1], "trk")

C25_Witness ==
    /\ io.op = "Write" /\ Len(io.doc[1].Rte) = 2 /\ io.doc[1].Rte[2].Name = Word("r2")
    /\ Len(io.stream[1].kids) = 7
    /\ io.stream[1].kids[1].name = "metadata" /\ io.stream[1].kids[3].name = "wpt"
    /\ io.stream[1].kids[5].name = "rte" /\ io.stream[1].kids[7].name = "trk"
    /\ io.stream[1].kids[5].kids = <<Elem("name", <<>>, <<>>, Word("r2"))>>

\* C26: whatever Read calls came before, with whatever options, a Write
\* returns, with or without an error: it does not panic on the list of
\* time layouts
C26_WriteReturns == io.op # "panic"

(***************************************************************************)
(* SpecConc: goroutines call Read and Write at the same time, each on its  *)
(* own input or document.  They share timeLayouts, which nothing guards:   *)
(* an option stores the slice's data pointer and its length one after the  *)
(* other, and other goroutines run in between.                             *)
(***************************************************************************)
Goroutines == 2

\* the slice of the given length over the array data; past the array's end
\* lies whatever memory holds
SliceOf(data, len) == [i \in 1..len |-> IF i <= Len(data) THEN data[i] ELSE <<"?">>]

ReadOf(layout, options) ==
    [op |-> "Read", input |-> Some(InputGPX(<<InputWpt(Format(layout, Time2006))>>)),
     options |-> options, doc |-> None]

InitConc ==
    /\ timeLayouts = DefaultTimeLayouts
    /\ \E calls \in [1..Goroutines ->
                      {ReadOf(RFC3339Nano, <<>>),
                       ReadOf(CustomLayout, <<WithTimeLayout(CustomLayout)>>),
                       ReadOf(RFC3339Nano,
                              <<WithTimeLayouts(<<CustomLayout, RFC3339Nano, NoZoneLayout>>)>>),
                       [op |-> "Write", input |-> None, options |-> <<>>,
                        doc |-> Some([Doc EXCEPT !.Wpt = <<Wpt(Time2006, Word("a"))>>])]}] :
          thr = [data |-> DefaultTimeLayouts, len |-> Len(DefaultTimeLayouts),
                 g |-> [i \in 1..Goroutines |->
                          [call |-> calls[i], next |-> 1, result |-> None,
                           pc |-> IF calls[i].options = <<>> THEN "body" ELSE "option"]]]
    /\ OthersIdle({"timeLayouts", "thr"})

\* an option's assignment to timeLayouts stores the data pointer
StoreData(i) ==
    /\ thr.g[i].pc = "option"
    /\ LET data == thr.g[i].call.options[thr.g[i].next].layouts
       IN  /\ thr' = [thr EXCEPT !.data = data, !.g[i].pc = "storing"]
           /\ timeLayouts' = SliceOf(data, thr.len)
    /\ UNCHANGED <<tm, pt, cr, io, wp, ge, ms>>

\* and then the length
StoreLen(i) ==
    /\ thr.g[i].pc = "storing"
    /\ LET len == Len(thr.g[i].call.options[thr.g[i].next].layouts)
       IN  /\ thr' = [thr EXCEPT !.len = len, !.g[i].next = @ + 1,
                                  !.g[i].pc = IF thr.g[i].next < Len(thr.g[i].call.options)
                                              THEN "option" ELSE "body"]
           /\ timeLayouts' = SliceOf(thr.data, len)
    /\ UNCHANGED <<tm, pt, cr, io, wp, ge, ms>>

\* Read decodes its input with the layouts timeLayouts holds at that time
Decode(i) ==
    /\ thr.g[i].pc = "body" /\ thr.g[i].call.op = "Read"
    /\ \E r \in {Read(thr.g[i].call.input, <<>>, timeLayouts)} :
           thr' = [thr EXCEPT !.g[i].pc = "done", !.g[i].result = [gpx |-> r.gpx, err |-> r.err]]
    /\ UNCHANGED <<timeLayouts, tm, pt, cr, io, wp, ge, ms>>

\* Write encodes its document with the first of them
Encode(i) ==
    /\ thr.g[i].pc = "body" /\ thr.g[i].call.op = "Write"
    /\ thr' = [thr EXCEPT !.g[i].pc = "done",
                          !.g[i].result = Write(thr.g[i].call.doc[1], <<>>, timeLayouts, {})]
    /\ UNCHANGED <<timeLayouts, tm, pt, cr, io, wp, ge, ms>>

NextConc == \E i \in 1..Goroutines : StoreData(i) \/ StoreLen(i) \/ Decode(i) \/ Encode(i)

SpecConc == InitConc /\ [][NextConc]_vars

\* what the call returns in a program that makes no other call
Alone(call) ==
    IF call.op = "Read"
    THEN [gpx |-> Read(call.input, call.options, DefaultTimeLayouts).gpx,
          err |-> Read(call.input, call.options, DefaultTimeLayouts).err]
    ELSE Write(call.doc[1], <<>>, DefaultTimeLayouts, {})

\* C4: however the calls interleave, each returns what it returns alone
C4_SameResultAsAlone ==
    \A i \in 1..Goroutines : thr.g[i].pc = "done" => thr.g[i].result = Alone(thr.g[i].call)

(***************************************************************************)
(* SpecWpt: one waypoint is encoded by WptType.MarshalXML under a start    *)
(* tag, or one waypoint element is decoded by WptType.UnmarshalXML.        *)
(***************************************************************************)
\* a waypoint none of whose fields is zero
WptSample ==
    [Lat |-> FloatOfNat(46), Lon |-> Canon(FALSE, NatBits(15), 0 - 1),
     Ele |-> FloatOfNat(1000), Speed |-> Canon(FALSE, <<1>>, 0 - 13),
     Course |-> FloatOfNat(90), Time |-> Time2006, MagVar |-> Canon(FALSE, NatBits(3), 0 - 1),
     GeoidHeight |-> FloatOfNat(48), Name |-> Word("name"), Cmt |-> Word("cmt"),
     Desc |-> Word("desc"), Src |-> Word("src"),
     Link |-> <<[HREF |-> Word("http://a"), Text |-> Word("a"), Type |-> <<>>],
                [HREF |-> Word("http://b"), Text |-> <<>>, Type |-> <<>>]>>,
     Sym |-> Word("sym"), Type |-> Word("type"), Fix |-> Word("3d"), Sat |-> 5,
     HDOP |-> Canon(FALSE, NatBits(5), 0 - 2), VDOP |-> FloatOfNat(2), PDOP |-> FloatOfNat(3),
     AgeOfDGPSData |-> FloatOfNat(4), DGPSID |-> <<0, 1023, 0>>,
     Extensions |-> Some([XML |-> Word("<e/>")])]

\* the waypoint whose fields in set are those of WptSample, the others zero
WptWith(set) ==
    [f \in DOMAIN WptSample |-> IF f \in set THEN WptSample[f] ELSE ZeroStruct("WptType")[f]]

\* the start tags WptType.MarshalXML is given: those of Write and one that
\* carries an attribute
StartTags ==
    {[name |-> "wpt", attrs |-> <<>>], [name |-> "rtept", attrs |-> <<>>],
     [name |-> "trkpt", attrs |-> <<Attr(<<"id">>, Word("p1"))>>]}

\* the child elements a waypoint element is made of
WptKids ==
    {Elem("ele", <<>>, <<>>, IntText(1000)), Elem("speed", <<>>, <<>>, IntText(9)),
     Elem("time", <<>>, <<>>, Format(RFC3339Nano, Time2006)),
     Elem("name", <<>>, <<>>, Word("name")), Elem("sat", <<>>, <<>>, IntText(5)),
     Elem("link", <<Attr(<<"href">>, Word("http://a"))>>, <<>>, <<>>),
     Elem("link", <<Attr(<<"href">>, Word("http://b"))>>, <<>>, <<>>),
     Elem("dgpsid", <<>>, <<>>, IntText(0)), Elem("dgpsid", <<>>, <<>>, IntText(1023)),
     Elem("extensions", <<>>, <<>>, Word("<e/>"))}

MaxKids == 3

InitWpt ==
    /\ timeLayouts = DefaultTimeLayouts
    /\ wp = [pc |-> "start"]
    /\ OthersIdle({"timeLayouts", "wp"})

\* WptType.MarshalXML on a waypoint with up to two fields set, or all of them
MarshalXMLCall ==
    /\ wp.pc = "start"
    /\ \E f1, f2 \in DOMAIN WptSample \cup {"none", "all"}, start \in StartTags :
          \E w \in {WptWith(IF "all" \in {f1, f2} THEN DOMAIN WptSample ELSE {f1, f2})} :
              \E r \in {MarshalWpt(w, start, timeLayouts, {})} :
                  wp' = [pc |-> "encoded", w |-> w, start |-> start, out |-> r.els[1]]
    /\ UNCHANGED <<timeLayouts, tm, pt, cr, io, thr, ge, ms>>

\* WptType.UnmarshalXML on <wpt lat="46" lon="7"> with up to MaxKids of the
\* children, in any order
UnmarshalXMLCall ==
    /\ wp.pc = "start"
    /\ \E n \in 0..MaxKids :
          \E kids \in {s \in [1..n -> WptKids] : \A i, j \in 1..n : s[i] = s[j] => i = j} :
              \E r \in {Unmarshal("WptType", ZeroStruct("WptType"),
                                  Elem("wpt", <<Attr(<<"lat">>, IntText(46)),
                                                Attr(<<"lon">>, IntText(7))>>, kids, <<>>),
                                  timeLayouts)} :
                  wp' = [pc |-> "decoded", kids |-> kids, w |-> r.v, err |-> r.err]
    /\ UNCHANGED <<timeLayouts, tm, pt, cr, io, thr, ge, ms>>

\* the values decoded onto: a new one, or one an earlier element has set
OntoReceivers(T) ==
    IF T = "WptType" THEN {ZeroStruct(T), WptSample}
    ELSE {ZeroStruct(T),
          [ZeroStruct(T) EXCEPT !.Name = Word("old"), !.Desc = Word("old desc"),
                                !.Time = Time2006, !.Keywords = Word("k")]}

\* children that decode, and children that make the decoding fail: a time no
\* layout parses, an elevation that is no number, an element never closed, a
\* copyright whose year no layout parses
OntoKids ==
    {Elem("name", <<>>, <<>>, Word("new")),
     Elem("time", <<>>, <<>>, Format(RFC3339Nano, InUTC(Unix(0, 0)))),
     Elem("time", <<>>, <<>>, Word("invalid")),
     Elem("ele", <<>>, <<>>, Word("invalid")),
     [Elem("desc", <<>>, <<>>, Word("cut")) EXCEPT !.closed = FALSE],
     Elem("copyright", <<>>, <<Elem("year", <<>>, <<>>, Word("invalid"))>>, <<>>)}

\* WptType.UnmarshalXML or MetadataType.UnmarshalXML on an element of up to
\* MaxKids of these children, onto one of these values
UnmarshalXMLOntoCall ==
    /\ wp.pc = "start"
    /\ \E T \in {"WptType", "MetadataType"}, n \in 0..MaxKids :
          \E recv \in OntoReceivers(T), kids \in [1..n -> OntoKids] :
              \E r \in {Unmarshal(T, recv,
                                  Elem(IF T = "WptType" THEN "wpt" ELSE "metadata",
                                       IF T = "WptType"
                                       THEN <<Attr(<<"lat">>, IntText(1)), Attr(<<"lon">>, IntText(2))>>
                                       ELSE <<>>,
                                       kids, <<>>),
                                  timeLayouts)} :
                  wp' = [pc |-> "decoded onto", T |-> T, recv |-> recv, kids |-> kids,
                         v |-> r.v, err |-> r.err]
    /\ UNCHANGED <<timeLayouts, tm, pt, cr, io, thr, ge, ms>>

NextWpt == MarshalXMLCall \/ UnmarshalXMLCall \/ UnmarshalXMLOntoCall

SpecWpt == InitWpt /\ [][NextWpt]_vars

WptChildOrder ==
    <<"ele", "speed", "course", "time", "magvar", "geoidheight", "name", "cmt", "desc",
      "src", "link", "sym", "type", "fix", "sat", "hdop", "vdop", "pdop", "ageofdgpsdata",
      "dgpsid", "extensions">>

\* C13: the children MarshalXML emits are from the list ele, speed, ...,
\* dgpsid, extensions, none before one that precedes it in the list, and
\* they lie between the start tag and the end tag of the element
C13_ChildOrderFixed ==
    wp.pc = "encoded" =>
        /\ wp.out.name = wp.start.name /\ wp.out.closed /\ wp.out.text = <<>>
        /\ \A j \in 1..Len(wp.out.kids) :
              \E r \in 1..Len(WptChildOrder) :
                  /\ WptChildOrder[r] = wp.out.kids[j].name
                  /\ \A i \in 1..(j - 1) :
                        \E q \in 1..r : WptChildOrder[q] = wp.out.kids[i].name

C13_Witness ==
    /\ wp.pc = "encoded" /\ wp.w = WptSample
    /\ Len(wp.out.kids) = 24
    /\ wp.out.kids[11].name = "link" /\ wp.out.kids[12].name = "link"
    /\ wp.out.kids[24].name = "extensions"

WptKidsNamed(name) == SelectSeq(wp.out.kids, LAMBDA e : e.name = name)

WptOptionalFloats ==
    {<<"Ele", "ele">>, <<"Speed", "speed">>, <<"Course", "course">>, <<"MagVar", "magvar">>,
     <<"GeoidHeight", "geoidheight">>, <<"HDOP", "hdop">>, <<"VDOP", "vdop">>,
     <<"PDOP", "pdop">>, <<"AgeOfDGPSData", "ageofdgpsdata">>}

WptOptionalStrings ==
    {<<"Name", "name">>, <<"Cmt", "cmt">>, <<"Desc", "desc">>, <<"Src", "src">>,
     <<"Sym", "sym">>, <<"Type", "type">>, <<"Fix", "fix">>}

\* C14: a float, int or string child of the waypoint is emitted, once,
\* exactly when its value is not 0 or the empty string, and every entry
\* of DGPSID is emitted as its own dgpsid element, in order, also when it is 0
C14_SuppressionRule ==
    wp.pc = "encoded" =>
        /\ \A c \in WptOptionalFloats :
              Len(WptKidsNamed(c[2])) = (IF wp.w[c[1]] = FloatOfNat(0) THEN 0 ELSE 1)
        /\ \A c \in WptOptionalStrings :
              WptKidsNamed(c[2]) = (IF wp.w[c[1]] = <<>> THEN <<>>
                                    ELSE <<Elem(c[2], <<>>, <<>>, wp.w[c[1]])>>)
        /\ WptKidsNamed("sat") = (IF wp.w.Sat = 0 THEN <<>>
                                  ELSE <<Elem("sat", <<>>, <<>>, IntText(wp.w.Sat))>>)
        /\ WptKidsNamed("dgpsid") =
              [i \in 1..Len(wp.w.DGPSID) |-> Elem("dgpsid", <<>>, <<>>, IntText(wp.w.DGPSID[i]))]

C14_Witness ==
    /\ wp.pc = "encoded" /\ wp.w.DGPSID = <<0, 1023, 0>> /\ Len(WptKidsNamed("dgpsid")) = 3
    /\ wp.w.Speed # FloatOfNat(0) /\ Len(WptKidsNamed("speed")) = 1
    /\ wp.w.Ele = FloatOfNat(0) /\ WptKidsNamed("ele") = <<>>
    /\ wp.w.Sat = 0 /\ WptKidsNamed("sat") = <<>>

\* C15: under any start tag, the first two attributes of the encoded
\* waypoint are lat and lon, with the values of Lat and Lon, also when
\* these are 0
C15_LatLonFirst ==
    wp.pc = "encoded" =>
        /\ Len(wp.out.attrs) >= 2
        /\ wp.out.attrs[1] = Attr(<<"lat">>, FloatText(wp.w.Lat))
        /\ wp.out.attrs[2] = Attr(<<"lon">>, FloatText(wp.w.Lon))

\* C15, lat and lon after the caller's attributes: under any start tag, the
\* attributes of the encoded waypoint are those the
\* start tag carries, then lat, then lon, with the values of Lat and Lon,
\* also when these are 0: the first two when the start tag carries none
C15_LatLonAfterCallers ==
    wp.pc = "encoded" =>
        /\ Len(wp.out.attrs) = Len(wp.start.attrs) + 2
        /\ SubSeq(wp.out.attrs, 1, Len(wp.start.attrs)) = wp.start.attrs
        /\ wp.out.attrs[Len(wp.start.attrs) + 1].name = <<"lat">>
        /\ wp.out.attrs[Len(wp.start.attrs) + 1].value = FloatText(wp.w.Lat)
        /\ wp.out.attrs[Len(wp.start.attrs) + 2].name = <<"lon">>
        /\ wp.out.attrs[Len(wp.start.attrs) + 2].value = FloatText(wp.w.Lon)

\* a waypoint at latitude 0 encoded under a start tag that carries an
\* attribute
C15_Witness ==
    /\ wp.pc = "encoded" /\ Len(wp.start.attrs) = 1 /\ wp.w.Lat = FloatOfNat(0)
    /\ wp.w.Lon # FloatOfNat(0) /\ Len(wp.out.attrs) = 3
    /\ wp.out.attrs[2].value = IntText(0)

\* the orders of the sequence kids
KidOrders(kids) ==
    {[i \in 1..Len(kids) |-> kids[o[i]]] : o \in Orders(1..Len(kids))}

DecodeWpt(kids) ==
    Unmarshal("WptType", ZeroStruct("WptType"),
              Elem("wpt", <<Attr(<<"lat">>, IntText(46)), Attr(<<"lon">>, IntText(7))>>,
                   kids, <<>>), timeLayouts)

WptChildField ==
    {<<"Ele", "ele">>, <<"Speed", "speed">>, <<"Time", "time">>, <<"Name", "name">>,
     <<"Sat", "sat">>, <<"Link", "link">>, <<"DGPSID", "dgpsid">>,
     <<"Extensions", "extensions">>, <<"Course", "course">>, <<"Fix", "fix">>,
     <<"HDOP", "hdop">>}

AbsentLeavesZero ==
    /\ wp.err = NoError
    /\ \A c \in WptChildField :
          (\A i \in 1..Len(wp.kids) : wp.kids[i].name # c[2])
              => wp.w[c[1]] = ZeroStruct("WptType")[c[1]]
    /\ (\A i \in 1..Len(wp.kids) : wp.kids[i].name # "time") => wp.w.Time = ZeroTime

\* C16 as stated: the children of a waypoint element decode to the same
\* waypoint, without error, in every order, and an absent child leaves its
\* field zero (the time the zero time)
C16_AnyOrderSameWaypoint ==
    wp.pc = "decoded" =>
        /\ AbsentLeavesZero
        /\ \A other \in KidOrders(wp.kids) :
              DecodeWpt(other) = [v |-> wp.w, err |-> NoError]

SameNamesInOrder(a, b) ==
    \A i \in 1..Len(a) :
        SelectSeq(a, LAMBDA e : e.name = a[i].name) = SelectSeq(b, LAMBDA e : e.name = a[i].name)

\* C16 as amended: the children decode to the same waypoint, without error,
\* in every order that keeps the elements of the same name (link, dgpsid)
\* in their order, and an absent child leaves its field zero
C16_OrderOfDistinctNames ==
    wp.pc = "decoded" =>
        /\ AbsentLeavesZero
        /\ \A other \in KidOrders(wp.kids) :
              SameNamesInOrder(wp.kids, other) =>
                  DecodeWpt(other) = [v |-> wp.w, err |-> NoError]

C16_Witness ==
    /\ wp.pc = "decoded" /\ Len(wp.kids) = 3
    /\ wp.kids[1].name = "extensions" /\ wp.kids[2].name = "time" /\ wp.kids[3].name = "ele"
    /\ wp.w.Ele = FloatOfNat(1000) /\ wp.w.Time = Time2006 /\ wp.w.Extensions # None
    /\ wp.w.Name = <<>>

(***************************************************************************)
(* SpecGeom: a geometry is turned into a route, a track segment or a       *)
(* track, or a waypoint, a route, a track segment or a track into its      *)
(* geometry.                                                               *)
(***************************************************************************)
MaxPoints == 3

MaxLines == 3

\* the p-th coordinate tuple of a geometry: the point p has a height of 0 if
\* p = 2 and a measure of 0 if p = 3
Coord(layout, p) ==
    SubSeq(<<FloatOfNat(10 + p), FloatOfNat(40 + p),
             IF layout = "XYM" THEN (IF p = 3 THEN FloatOfNat(0) ELSE FloatOfNat(1136214245 + p))
             ELSE (IF p = 2 THEN FloatOfNat(0) ELSE FloatOfNat(1000 + p)),
             IF p = 3 THEN FloatOfNat(0) ELSE FloatOfNat(1136214245 + p),
             FloatOfNat(5), FloatOfNat(6)>>, 1, Stride(layout))

\* the line string of the points first + 1 .. first + k
Line(layout, first, k) ==
    [layout |-> layout, flatCoords |-> Flatten([i \in 1..k |-> Coord(layout, first + i)])]

RECURSIVE Sum(_)

Sum(sizes) == IF sizes = <<>> THEN 0 ELSE sizes[1] + Sum(Tail(sizes))

\* the multi-line string whose lines have the sizes given, the points
\* numbered from 1 through the lines
MultiLine(layout, sizes) ==
    [layout |-> layout,
     flatCoords |-> Line(layout, 0, Sum(sizes)).flatCoords,
     ends |-> [i \in 1..Len(sizes) |-> Stride(layout) * Sum(SubSeq(sizes, 1, i))]]

\* the p-th waypoint of a route or track: the waypoint p has no elevation
\* if p = 2 and no time if p = 3
GeomWpt(p) ==
    [ZeroStruct("WptType") EXCEPT
        !.Lon = FloatOfNat(10 + p), !.Lat = FloatOfNat(40 + p),
        !.Ele = IF p = 2 THEN FloatOfNat(0) ELSE Canon(FALSE, NatBits(2001 + 2 * p), 0 - 1),
        !.Time = IF p = 3 THEN ZeroTime ELSE [Time2006 EXCEPT !.sod = @ + p, !.nsec = 500000000],
        !.Name = Word("name")]

GeomWpts(first, k) == [i \in 1..k |-> GeomWpt(first + i)]

\* the track whose segments have the sizes given
GeomTrk(sizes) ==
    [ZeroStruct("TrkType") EXCEPT
        !.TrkSeg = [i \in 1..Len(sizes) |->
                       [ZeroStruct("TrkSegType") EXCEPT
                           !.TrkPt = GeomWpts(Sum(SubSeq(sizes, 1, i - 1)), sizes[i])]]]

SizeLists == UNION {[1..n -> 0..MaxPoints] : n \in 0..MaxLines}

InitGeom ==
    /\ ge = [pc |-> "start"]
    /\ OthersIdle({"ge"})

\* what a call returns, or that it panicked
Returned(pc, g, r) ==
    IF r.panic THEN [pc |-> "panic", g |-> g] ELSE [pc |-> pc, g |-> g, v |-> r.v]

NewRteTypeCall ==
    /\ ge.pc = "start"
    /\ \E layout \in GeomLayouts, k \in 0..MaxPoints :
          \E g \in {Line(layout, 0, k)} : ge' = Returned("NewRteType", g, NewRteType(g))
    /\ UNCHANGED <<timeLayouts, tm, pt, cr, io, thr, wp, ms>>

NewTrkSegTypeCall ==
    /\ ge.pc = "start"
    /\ \E layout \in GeomLayouts, k \in 0..MaxPoints :
          \E g \in {Line(layout, 0, k)} : ge' = Returned("NewTrkSegType", g, NewTrkSegType(g))
    /\ UNCHANGED <<timeLayouts, tm, pt, cr, io, thr, wp, ms>>

NewTrkTypeCall ==
    /\ ge.pc = "start"
    /\ \E layout \in GeomLayouts, sizes \in SizeLists :
          \E g \in {MultiLine(layout, sizes)} : ge' = Returned("NewTrkType", g, NewTrkType(g))
    /\ UNCHANGED <<timeLayouts, tm, pt, cr, io, thr, wp, ms>>

\* w.Geom(layout) on the waypoint p, with its own time or one on or off the
\* second, from 1969 to 2006
WptGeomCall ==
    /\ ge.pc = "start"
    /\ \E layout \in GeomLayouts, p \in 1..MaxPoints :
          \E t \in {GeomWpt(p).Time, InUTC(Unix(0, 0)), InUTC(Unix(0, 15)), Time2006,
                    [Time2006 EXCEPT !.nsec = 123456789, !.loc = "Local"],
                    InUTC(Unix(0 - 1, 999999999))} :
              \E w \in {[GeomWpt(p) EXCEPT !.Time = t]} :
                  ge' = [pc |-> "WptType.Geom", layout |-> layout, v |-> w,
                         g |-> WptGeom(w, layout)]
    /\ UNCHANGED <<timeLayouts, tm, pt, cr, io, thr, wp, ms>>

\* NewWptType on the point that w.Geom(layout) gave; flatCoords[1] is out of
\* range in the point of NoLayout, which has no coordinates
NewWptTypeCall ==
    /\ ge.pc = "WptType.Geom"
    /\ ge' = IF Len(ge.g.flatCoords) < 2 THEN [pc |-> "panic", g |-> ge.g]
             ELSE [pc |-> "NewWptType", layout |-> ge.layout, w |-> ge.v, g |-> ge.g,
                   v |-> NewWptType(ge.g.layout, ge.g.flatCoords)]
    /\ UNCHANGED <<timeLayouts, tm, pt, cr, io, thr, wp, ms>>

\* Geom(layout) on the waypoint that NewWptType gave
WptGeomAgainCall ==
    /\ ge.pc = "NewWptType"
    /\ ge' = [pc |-> "WptType.Geom again", layout |-> ge.layout, w |-> ge.w, first |-> ge.g,
              v |-> ge.v, g |-> WptGeom(ge.v, ge.layout)]
    /\ UNCHANGED <<timeLayouts, tm, pt, cr, io, thr, wp, ms>>

RteGeomCall ==
    /\ ge.pc = "start"
    /\ \E layout \in GeomLayouts, k \in 0..MaxPoints :
          \E r \in {[ZeroStruct("RteType") EXCEPT !.RtePt = GeomWpts(0, k)]} :
              ge' = [pc |-> "RteType.Geom", layout |-> layout, v |-> r, g |-> RteGeom(r, layout)]
    /\ UNCHANGED <<timeLayouts, tm, pt, cr, io, thr, wp, ms>>

TrkSegGeomCall ==
    /\ ge.pc = "start"
    /\ \E layout \in GeomLayouts, k \in 0..MaxPoints :
          \E ts \in {[ZeroStruct("TrkSegType") EXCEPT !.TrkPt = GeomWpts(0, k)]} :
              ge' = [pc |-> "TrkSegType.Geom", layout |-> layout, v |-> ts,
                     g |-> TrkSegGeom(ts, layout)]
    /\ UNCHANGED <<timeLayouts, tm, pt, cr, io, thr, wp, ms>>

TrkGeomCall ==
    /\ ge.pc = "start"
    /\ \E layout \in GeomLayouts, sizes \in SizeLists :
          \E t \in {GeomTrk(sizes)} :
              ge' = [pc |-> "TrkType.Geom", layout |-> layout, v |-> t, g |-> TrkGeom(t, layout)]
    /\ UNCHANGED <<timeLayouts, tm, pt, cr, io, thr, wp, ms>>

NextGeom ==
    \/ NewRteTypeCall \/ NewTrkSegTypeCall \/ NewTrkTypeCall
    \/ WptGeomCall \/ RteGeomCall \/ TrkSegGeomCall \/ TrkGeomCall
    \/ NewWptTypeCall \/ WptGeomAgainCall

SpecGeom == InitGeom /\ [][NextGeom]_vars

\* the vector of the waypoint w under the layout, as C18 states it
Vector(w, layout) ==
    CASE layout = "NoLayout" -> <<>>
      [] layout = "XY" -> <<w.Lon, w.Lat>>
      [] layout = "XYZ" -> <<w.Lon, w.Lat, w.Ele>>
      [] layout = "XYM" -> <<w.Lon, w.Lat, TimeToM(w.Time)>>
      [] layout = "XYZM" -> <<w.Lon, w.Lat, w.Ele, TimeToM(w.Time)>>
      [] layout = "Layout5" -> <<w.Lon, w.Lat, w.Ele, TimeToM(w.Time), FloatOfNat(0)>>
      [] layout = "Layout6" ->
            <<w.Lon, w.Lat, w.Ele, TimeToM(w.Time), FloatOfNat(0), FloatOfNat(0)>>

Vectors(wpts, layout) == Flatten([i \in 1..Len(wpts) |-> Vector(wpts[i], layout)])

\* C18: the geometry of a waypoint under a layout is the vector nothing,
\* (lon, lat), (lon, lat, ele), (lon, lat, TimeToM(time)), (lon, lat, ele,
\* TimeToM(time)), or the latter followed by n - 4 zeros under a custom
\* layout of stride n; the geometry of a route, a track segment or a track
\* is the vectors of its points, one after the other in point order
C18_GeomVectors ==
    /\ ge.pc = "WptType.Geom" =>
          ge.g = [layout |-> ge.layout, flatCoords |-> Vector(ge.v, ge.layout)]
    /\ ge.pc = "RteType.Geom" =>
          ge.g = [layout |-> ge.layout, flatCoords |-> Vectors(ge.v.RtePt, ge.layout)]
    /\ ge.pc = "TrkSegType.Geom" =>
          ge.g = [layout |-> ge.layout, flatCoords |-> Vectors(ge.v.TrkPt, ge.layout)]
    /\ ge.pc = "TrkType.Geom" =>
          /\ ge.g.layout = ge.layout
          /\ ge.g.flatCoords =
                Flatten([i \in 1..Len(ge.v.TrkSeg) |-> Vectors(ge.v.TrkSeg[i].TrkPt, ge.layout)])

C18_Witness ==
    /\ ge.pc = "RteType.Geom" /\ ge.layout = "Layout6" /\ Len(ge.v.RtePt) = 3
    /\ Len(ge.g.flatCoords) = 18
    /\ ge.g.flatCoords[1] = FloatOfNat(11) /\ ge.g.flatCoords[2] = FloatOfNat(41)
    /\ ge.g.flatCoords[4] = TimeToM(ge.v.RtePt[1].Time) /\ ge.g.flatCoords[4] # FloatOfNat(0)
    /\ ge.g.flatCoords[9] = FloatOfNat(0) /\ ge.g.flatCoords[16] = FloatOfNat(0)
    /\ ge.g.flatCoords[15] # FloatOfNat(0)

\* the i-th coordinate tuple of the line string g
TupleOf(g, i) == SubSeq(g.flatCoords, Stride(g.layout) * (i - 1) + 1, Stride(g.layout) * i)

\* the waypoint of a coordinate tuple, as C19 states it
WptOfTuple(layout, c) ==
    [ZeroStruct("WptType") EXCEPT
        !.Lon = c[1], !.Lat = c[2],
        !.Ele = IF layout \in {"XYZ", "XYZM", "Layout5", "Layout6"} THEN c[3] ELSE @,
        !.Time = IF layout = "XYM" THEN MToTime(c[3])
                 ELSE IF layout \in {"XYZM", "Layout5", "Layout6"} THEN MToTime(c[4])
                 ELSE @]

WptsOfLine(g) ==
    [i \in 1..(Len(g.flatCoords) \div Stride(g.layout)) |-> WptOfTuple(g.layout, TupleOf(g, i))]

\* C19: NewRteType and NewTrkSegType on a line string of k coordinate
\* tuples give k waypoints in the order of the tuples, the i-th with Lon and
\* Lat from slots 0 and 1 of the i-th tuple, Ele from the Z slot if the
\* layout has one, Time = MToTime(M slot) if the layout has one, and every
\* other field zero
C19_WaypointsOfTuples ==
    /\ ge.pc = "NewRteType" =>
          ge.v = [ZeroStruct("RteType") EXCEPT !.RtePt = WptsOfLine(ge.g)]
    /\ ge.pc = "NewTrkSegType" =>
          ge.v = [ZeroStruct("TrkSegType") EXCEPT !.TrkPt = WptsOfLine(ge.g)]

C19_Witness ==
    /\ ge.pc = "NewRteType" /\ ge.g.layout = "XYZM" /\ Len(ge.g.flatCoords) = 12
    /\ Len(ge.v.RtePt) = 3
    /\ ge.v.RtePt[1].Ele = FloatOfNat(1001) /\ ge.v.RtePt[2].Ele = FloatOfNat(0)
    /\ ge.v.RtePt[2].Time = [Time2006 EXCEPT !.sod = @ + 2]
    /\ ge.v.RtePt[3].Lon = FloatOfNat(13) /\ ge.v.RtePt[3].Lat = FloatOfNat(43)

\* the i-th line of the multi-line string g
LineOf(g, i) ==
    [layout |-> g.layout,
     flatCoords |-> SubSeq(g.flatCoords, (IF i = 1 THEN 0 ELSE g.ends[i - 1]) + 1, g.ends[i])]

\* C20: NewTrkType on a multi-line string of n lines gives a track of n
\* track segments, the i-th holding the points of the i-th line, as many
\* and in the same order
C20_SegmentsOfLines ==
    ge.pc = "NewTrkType" =>
        /\ Len(ge.v.TrkSeg) = Len(ge.g.ends)
        /\ \A i \in 1..Len(ge.g.ends) :
              ge.v.TrkSeg[i] =
                  [ZeroStruct("TrkSegType") EXCEPT !.TrkPt = WptsOfLine(LineOf(ge.g, i))]

C20_Witness ==
    /\ ge.pc = "NewTrkType" /\ ge.g.layout = "XY" /\ ge.g.ends = <<6, 8, 12>>
    /\ Len(ge.v.TrkSeg) = 3
    /\ Len(ge.v.TrkSeg[1].TrkPt) = 3 /\ Len(ge.v.TrkSeg[2].TrkPt) = 1
    /\ Len(ge.v.TrkSeg[3].TrkPt) = 2
    /\ ge.v.TrkSeg[2].TrkPt[1].Lon = FloatOfNat(14)
    /\ ge.v.TrkSeg[3].TrkPt[2].Lon = FloatOfNat(16)

\* C21 as stated: the vector of a waypoint under a layout other than
\* NoLayout, turned into a waypoint by NewWptType and that into its vector
\* under the same layout, is the same vector again
C21_GeomRoundTrip == ge.pc = "WptType.Geom again" => ge.g = ge.first

\* C21 as amended: the same, for a waypoint without a time or with a time on
\* a whole or a half second whose Unix seconds fit 32 bits (1902 to 2037),
\* and for every waypoint under a layout without M
C21_RoundTripOnHalfSeconds ==
    ge.pc = "WptType.Geom again"
        /\ (MIndex(ge.layout) = 0 - 1 \/ IsZero(ge.w.Time) \/ ge.w.Time.nsec \in {0, Second \div 2})
        => ge.g = ge.first

C21_Witness ==
    /\ ge.pc = "WptType.Geom again" /\ ge.layout = "Layout6"
    /\ ge.w.Time = [Time2006 EXCEPT !.sod = @ + 1, !.nsec = Second \div 2]
    /\ Len(ge.first.flatCoords) = 6 /\ ge.first.flatCoords[4] = TimeToM(ge.w.Time)
    /\ ge.first.flatCoords[3] = ge.w.Ele /\ ge.g = ge.first

\* C22 as stated: a waypoint with lat, lon, elevation and time set, turned
\* into its XYZM point and back by NewWptType, has the same lat, lon,
\* elevation and instant
C22_XYZMRoundTrip ==
    ge.pc = "NewWptType" /\ ge.layout = "XYZM" /\ ge.w.Ele # FloatOfNat(0) /\ ~IsZero(ge.w.Time) =>
        /\ ge.v.Lat = ge.w.Lat /\ ge.v.Lon = ge.w.Lon /\ ge.v.Ele = ge.w.Ele
        /\ SameInstant(ge.v.Time, ge.w.Time)

\* C22 as amended: the same, for a waypoint whose time lies on a whole or a
\* half second and whose Unix seconds fit 32 bits (1902 to 2037)
C22_XYZMOnHalfSeconds ==
    ge.pc = "NewWptType" /\ ge.layout = "XYZM" /\ ge.w.Ele # FloatOfNat(0) /\ ~IsZero(ge.w.Time)
        /\ ge.w.Time.nsec \in {0, Second \div 2} =>
        /\ ge.v.Lat = ge.w.Lat /\ ge.v.Lon = ge.w.Lon /\ ge.v.Ele = ge.w.Ele
        /\ SameInstant(ge.v.Time, ge.w.Time)

C22_Witness ==
    /\ ge.pc = "NewWptType" /\ ge.layout = "XYZM"
    /\ ge.w.Ele = Canon(FALSE, NatBits(2003), 0 - 1)
    /\ ge.w.Time = [Time2006 EXCEPT !.sod = @ + 1, !.nsec = Second \div 2]
    /\ ge.v.Ele = ge.w.Ele /\ ge.v.Lon = FloatOfNat(11) /\ ge.v.Lat = FloatOfNat(41)
    /\ SameInstant(ge.v.Time, ge.w.Time)


\* C27: when WptType.UnmarshalXML or MetadataType.UnmarshalXML returns an
\* error, the value decoded onto is what it was before the call
C27_ReceiverKeptOnError ==
    wp.pc = "decoded onto" /\ wp.err # NoError => wp.v = wp.recv

\* a waypoint that had fields set, given a new name and then a time that no
\* layout parses
C27_Witness ==
    /\ wp.pc = "decoded onto" /\ wp.T = "WptType" /\ wp.recv = WptSample
    /\ Len(wp.kids) = 2 /\ wp.kids[1].name = "name" /\ wp.kids[2].text = Word("invalid")
    /\ wp.kids[2].name = "time" /\ wp.err # NoError


\* C28: when CopyrightType.UnmarshalXML returns the error that no layout
\* parses the year, the author, the year and the license of the value decoded
\* onto are what they were before the call
C28_CopyrightKeptOnYearError ==
    cr.pc = "done" /\ cr.err # NoError /\ cr.err.kind = CopyrightError(<<>>).kind
        => /\ cr.c.Author = cr.c0.Author
           /\ cr.c.Year = cr.c0.Year
           /\ cr.c.License = cr.c0.License

\* the year alone is kept
C28_YearKeptOnYearError ==
    cr.pc = "done" /\ cr.err # NoError /\ cr.err.kind = CopyrightError(<<>>).kind
        => cr.c.Year = cr.c0.Year


\* the number of points in the first i segments of the track
PointsUpTo(t, i) == Sum([j \in 1..i |-> Len(t.TrkSeg[j].TrkPt)])

\* C29: under every layout, TrkType.Geom gives one end per segment, the i-th
\* the stride times the number of points in the segments up to the i-th, the
\* ends never decreasing and the last the length of the flat coordinates;
\* RteType.Geom and TrkSegType.Geom give stride values per point
C29_EndsAgreeWithCoords ==
    /\ ge.pc = "TrkType.Geom" =>
          /\ Len(ge.g.ends) = Len(ge.v.TrkSeg)
          /\ \A i \in 1..Len(ge.g.ends) :
                 /\ ge.g.ends[i] = Stride(ge.layout) * PointsUpTo(ge.v, i)
                 /\ i > 1 => ge.g.ends[i - 1] <= ge.g.ends[i]
          /\ Len(ge.g.flatCoords) =
                 IF ge.g.ends = <<>> THEN 0 ELSE ge.g.ends[Len(ge.g.ends)]
          /\ Len(ge.g.flatCoords) = Stride(ge.layout) * PointsUpTo(ge.v, Len(ge.v.TrkSeg))
    /\ ge.pc = "RteType.Geom" => Len(ge.g.flatCoords) = Stride(ge.layout) * Len(ge.v.RtePt)
    /\ ge.pc = "TrkSegType.Geom" => Len(ge.g.flatCoords) = Stride(ge.layout) * Len(ge.v.TrkPt)

\* a track of an empty segment between two that have points, under a layout
\* of six values per point
C29_Witness ==
    /\ ge.pc = "TrkType.Geom" /\ ge.layout = "Layout6" /\ Len(ge.v.TrkSeg) = 3
    /\ Len(ge.v.TrkSeg[1].TrkPt) = 2 /\ Len(ge.v.TrkSeg[2].TrkPt) = 0
    /\ Len(ge.v.TrkSeg[3].TrkPt) = 1
    /\ ge.g.ends = <<12, 12, 18>> /\ Len(ge.g.flatCoords) = 18


(***************************************************************************)
(* SpecSpeed: findClosestPoint searches a track segment, or MaxSpeed goes  *)
(* through the tracks of a document and fixes the points that are too      *)
(* fast (unnamed/part_002). The points lie on one meridian less than 0.2   *)
(* degrees apart, where distance (part_002:672-695) is                     *)
(* sqrt(x*x) * oneDegree with x the difference of the latitudes; latitudes *)
(* are counted in units of which Scale make one step, distances in the     *)
(* same units, times in seconds.                                           *)
(***************************************************************************)
MaxTrkPt == 4

\* a midpoint of midpoints is still a whole number of units
Scale == 2 ^ MaxTrkPt

\* the window maxSpeedFix searches: closest := ts.findClosestPoint(wptTypeNo, 5)
ClosestWindow == 5

Abs(x) == IF x < 0 THEN 0 - x ELSE x

\* WptType.Distance2D (part_002:662-665)
Distance2D(w, p) == Abs(w.Lat - p.Lat)

\* WptType.TimeDiff (part_002:646-660)
TimeDiff(w, p) == IF w.Time = p.Time THEN 0 ELSE Abs(w.Time - p.Time)

\* WptType.SpeedBetween (part_002:634-644): the quotient distLen / seconds,
\* kept as its two terms
SpeedBetween(w, p) == [distLen |-> Distance2D(w, p), seconds |-> TimeDiff(w, p)]

\* speed > max (part_002:762): a distance over zero seconds is +Inf, zero
\* over zero seconds NaN, which is greater than nothing
Exceeds(speed, max) ==
    IF speed.seconds = 0 THEN speed.distLen > 0 ELSE speed.distLen > max * speed.seconds

\* midpoint (part_002:744-753): on a meridian the mean of the latitudes
midpoint(coord1, coord2) == [Lat |-> (coord1.Lat + coord2.Lat) \div 2]

RECURSIVE findClosestLoop(_, _, _, _, _, _)

\* the loop of findClosestPoint from index i on; TrkPt is indexed from 0 in
\* the source
findClosestLoop(TrkPt, start, num, i, minDistance, minDistanceIndex) ==
    IF ~(i < Len(TrkPt)) \/ num - 1 = 0 THEN minDistanceIndex
    ELSE IF Distance2D(TrkPt[start + 1], TrkPt[i + 1]) < minDistance \/ minDistance = 0
    THEN findClosestLoop(TrkPt, start, num - 1, i + 1,
                         Distance2D(TrkPt[start + 1], TrkPt[i + 1]), i)
    ELSE findClosestLoop(TrkPt, start, num - 1, i + 1, minDistance, minDistanceIndex)

\* TrkSegType.findClosestPoint (part_002:791-806)
findClosestPoint(TrkPt, start, num) == findClosestLoop(TrkPt, start, num, start + 1, 0, 0)

\* the index is one of the slice
InRange(TrkPt, i) == 0 <= i /\ i < Len(TrkPt)

\* the three assignments of maxSpeedFix, or the panic of an index out of range
FixedAt(TrkPt, wptTypeNo, closest) ==
    IF ~InRange(TrkPt, wptTypeNo) \/ ~InRange(TrkPt, closest) \/ ~InRange(TrkPt, wptTypeNo + 1)
    THEN [panic |-> TRUE, TrkPt |-> TrkPt]
    ELSE [panic |-> FALSE,
          TrkPt |-> [TrkPt EXCEPT ![wptTypeNo + 2].Lat =
                                      midpoint(TrkPt[wptTypeNo + 1], TrkPt[closest + 1]).Lat]]

\* TrkSegType.maxSpeedFix (part_002:778-789)
maxSpeedFix(TrkPt, wptTypeNo, fix) ==
    IF ~fix \/ findClosestPoint(TrkPt, wptTypeNo, ClosestWindow) = 0
    THEN [panic |-> FALSE, TrkPt |-> TrkPt]
    ELSE FixedAt(TrkPt, wptTypeNo, findClosestPoint(TrkPt, wptTypeNo, ClosestWindow))

\* TrkPt[wptTypeNo].Speed = speed with the speed taken after the fix;
\* result = append(result, *TrkSegType.TrkPt[wptTypeNo]) (part_002:764-767)
Recorded(s, f, wptTypeNo) ==
    IF f.panic THEN [s EXCEPT !.panic = TRUE]
    ELSE LET speed == SpeedBetween(f.TrkPt[wptTypeNo + 1], f.TrkPt[wptTypeNo + 2])
             TrkPt == [f.TrkPt EXCEPT ![wptTypeNo + 1].Speed = speed]
         IN  [panic |-> FALSE, TrkPt |-> TrkPt, result |-> Append(s.result, TrkPt[wptTypeNo + 1])]

RECURSIVE MaxSpeedPoints(_, _, _, _)

\* the loop of MaxSpeed over the points of one segment (part_002:760-770),
\* from wptTypeNo on
MaxSpeedPoints(s, wptTypeNo, max, fix) ==
    IF s.panic \/ wptTypeNo >= Len(s.TrkPt) THEN s
    ELSE IF wptTypeNo = Len(s.TrkPt) - 1
              \/ ~Exceeds(SpeedBetween(s.TrkPt[wptTypeNo + 1], s.TrkPt[wptTypeNo + 2]), max)
    THEN MaxSpeedPoints(s, wptTypeNo + 1, max, fix)
    ELSE MaxSpeedPoints(Recorded(s, maxSpeedFix(s.TrkPt, wptTypeNo, fix), wptTypeNo),
                        wptTypeNo + 1, max, fix)

RECURSIVE MaxSpeedSegs(_, _, _, _)

\* the segments of the document in the order of the two outer loops: s the
\* segments done, the results and whether a panic happened
MaxSpeedSegs(s, segs, max, fix) ==
    IF s.panic \/ segs = <<>> THEN s
    ELSE LET r == MaxSpeedPoints([panic |-> FALSE, TrkPt |-> segs[1], result |-> s.result],
                                 0, max, fix)
         IN  MaxSpeedSegs([panic |-> r.panic, done |-> Append(s.done, r.TrkPt),
                           result |-> r.result],
                          Tail(segs), max, fix)

\* the track segments of g, through the tracks
RECURSIVE SegsOf(_)
SegsOf(Trk) ==
    IF Trk = <<>> THEN <<>>
    ELSE [i \in 1..Len(Trk[1].TrkSeg) |-> Trk[1].TrkSeg[i].TrkPt] \o SegsOf(Tail(Trk))

\* GPX.MaxSpeed (part_002:755-776): the points recorded and the segments as
\* the call leaves them
MaxSpeed(g, max, fix) ==
    MaxSpeedSegs([panic |-> FALSE, done |-> <<>>, result |-> <<>>], SegsOf(g.Trk), max, fix)

\* the track points at the latitudes given, dt seconds one after the other
SpeedPts(lats, dt) ==
    [j \in 1..Len(lats) |->
        [Lat |-> lats[j] * Scale, Time |-> j * dt, Speed |-> [distLen |-> 0, seconds |-> 1]]]

LatLists == UNION {[1..n -> 0..2] : n \in 0..MaxTrkPt}

\* a document of two tracks, the points cut into a segment of the first and
\* a segment of the second, which has an empty segment too
SpeedDoc(lats, k, dt) ==
    [Trk |-> <<[TrkSeg |-> <<[TrkPt |-> SpeedPts(SubSeq(lats, 1, k), dt)]>>],
               [TrkSeg |-> <<[TrkPt |-> SpeedPts(SubSeq(lats, k + 1, Len(lats)), dt)],
                             [TrkPt |-> <<>>]>>]>>]

InitSpeed ==
    /\ ms = [pc |-> "start"]
    /\ OthersIdle({"ms"})

findClosestPointCall ==
    /\ ms.pc = "start"
    /\ \E lats \in LatLists, num \in 1..ClosestWindow :
          \E start \in 0..(IF lats = <<>> THEN 0 ELSE Len(lats) - 1) :
              \E TrkPt \in {SpeedPts(lats, 1)} :
                  ms' = [pc |-> "findClosestPoint", TrkPt |-> TrkPt, start |-> start,
                         num |-> num, closest |-> findClosestPoint(TrkPt, start, num)]
    /\ UNCHANGED <<timeLayouts, tm, pt, cr, io, thr, wp, ge>>

MaxSpeedCall ==
    /\ ms.pc = "start"
    /\ \E lats \in LatLists, dt \in 0..1, max \in {0, Scale}, fix \in BOOLEAN :
          \E k \in 0..Len(lats) :
              \E g \in {SpeedDoc(lats, k, dt)} :
                  \E r \in {MaxSpeed(g, max, fix)} :
                      ms' = [pc |-> IF r.panic THEN "panic" ELSE "MaxSpeed", g |-> g,
                             max |-> max, fix |-> fix, done |-> r.done, result |-> r.result]
    /\ UNCHANGED <<timeLayouts, tm, pt, cr, io, thr, wp, ge>>

NextSpeed == findClosestPointCall \/ MaxSpeedCall

SpecSpeed == InitSpeed /\ [][NextSpeed]_vars

\* the indices findClosestPoint(start, num) is to search
ClosestRange ==
    {j \in (ms.start + 1)..(Len(ms.TrkPt) - 1) : j <= ms.start + ms.num - 1}

\* C30: findClosestPoint(start, num) returns 0 exactly when the range
\* start+1 .. min(start+num-1, len-1) is empty, and else an index of the
\* range whose point is no farther from TrkPt[start] than any other of the
\* range; the index is 0 or a valid one greater than start, and MaxSpeed
\* does not panic
C30_ClosestInWindow ==
    /\ ms.pc = "findClosestPoint" =>
          /\ ms.closest = 0 <=> ClosestRange = {}
          /\ ClosestRange # {} =>
                /\ ms.closest \in ClosestRange
                /\ \A j \in ClosestRange :
                       Distance2D(ms.TrkPt[ms.start + 1], ms.TrkPt[ms.closest + 1])
                           <= Distance2D(ms.TrkPt[ms.start + 1], ms.TrkPt[j + 1])
          /\ ms.closest = 0 \/ (ms.start < ms.closest /\ InRange(ms.TrkPt, ms.closest))
    /\ ms.pc # "panic"

\* the index alone: 0 exactly on an empty range, else in the range, and no
\* panic in MaxSpeed
C30_IndexInWindow ==
    /\ ms.pc = "findClosestPoint" =>
          /\ ms.closest = 0 <=> ClosestRange = {}
          /\ ClosestRange # {} => ms.closest \in ClosestRange
    /\ ms.pc # "panic"

\* nearest among the points that are not where TrkPt[start] is
C30_NearestOfDistinct ==
    ms.pc = "findClosestPoint" /\ ClosestRange # {} =>
        \A j \in ClosestRange :
            \/ Distance2D(ms.TrkPt[ms.start + 1], ms.TrkPt[j + 1]) = 0
            \/ Distance2D(ms.TrkPt[ms.start + 1], ms.TrkPt[ms.closest + 1])
                   <= Distance2D(ms.TrkPt[ms.start + 1], ms.TrkPt[j + 1])
            \/ \E k \in ClosestRange :
                   k < ms.closest /\ Distance2D(ms.TrkPt[ms.start + 1], ms.TrkPt[k + 1]) = 0

=============================================================================
